---- MODULE Spec2Model ----
(***************************************************************************)
(* Slack query agent: the `~thread` command handler (threads.ts), the      *)
(* memory adapter (memory.ts) and the query orchestrator (index.ts), as a  *)
(* state machine over the key-value store, the memory service and the      *)
(* requests that are being handled.                                        *)
(*                                                                         *)
(* Text is a sequence of one-character strings, so that startsWith, slice, *)
(* trim, split and the template literals are computed as the code does.    *)
(***************************************************************************)
EXTENDS Integers, Sequences, FiniteSets, TLC

(***************************************************************************)
(* String literals of the source, character by character.                  *)
(***************************************************************************)
\* index.ts:54 the command sentinel
SENTINEL ==
    <<"~">>

\* threads.ts:14
CMD_THREAD ==
    <<"~","t","h","r","e","a","d">>

\* threads.ts:85
CMD_HELP ==
    <<"~","h","e","l","p">>

\* threads.ts:29, 48
TXT_ONLY_ONE_FLAG ==
    <<"O","n","l","y"," ","o","n","e"," ","f","l","a","g"," ","p","e","r"," ","r","u","n"," ",
      "i","s"," ","a","l","l","o","w","e","d",".">>

\* threads.ts:37 (before ${flag})
TXT_INVALID_FLAG_PRE ==
    <<"I","n","v","a","l","i","d"," ","f","l","a","g",":"," ","-">>

\* threads.ts:37 (after ${flag})
TXT_INVALID_FLAG_POST ==
    <<"."," ","A","c","c","e","p","t","e","d"," ","f","l","a","g","s"," ","a","r","e",":"," ",
      "-","c",","," ","-","l",","," ","-","s">>

\* threads.ts:43
TXT_S_REQUIRES_ID ==
    <<"F","l","a","g"," ","-","s"," ","r","e","q","u","i","r","e","s"," ","a","n"," ","I","D",
      " ","a","r","g","u","m","e","n","t",".">>

\* threads.ts:56
TXT_MULTIPLE_FLAGS ==
    <<"M","u","l","t","i","p","l","e"," ","f","l","a","g","s"," ","i","n"," ","o","n","e"," ",
      "d","a","s","h"," ","n","o","t"," ","a","l","l","o","w","e","d","."," ","U","s","e"," ",
      "o","n","e"," ","f","l","a","g"," ","p","e","r"," ","d","a","s","h",".">>

\* threads.ts:58
TXT_INVALID_FORMAT ==
    <<"I","n","v","a","l","i","d"," ","f","l","a","g"," ","f","o","r","m","a","t",".">>

\* threads.ts:61
TXT_UNEXPECTED_PRE ==
    <<"U","n","e","x","p","e","c","t","e","d"," ","a","r","g","u","m","e","n","t",":"," ">>

\* threads.ts:67-70, the template literal with its line breaks and indentation
TXT_USAGE_THREAD ==
    <<"~","t","h","r","e","a","d"," ","<","f","l","a","g",">","\n"," "," "," "," "," "," "," ",
      " ","-","c",":"," ","s","t","a","r","t"," ","a"," ","n","e","w"," ","t","h","r","e","a",
      "d","\n"," "," "," "," "," "," "," "," ","-","l",":"," ","l","i","s","t"," ","t","h","r",
      "e","a","d","s","\n"," "," "," "," "," "," "," "," ","-","s"," ","<","i","d",">",":"," ",
      "s","w","i","t","c","h"," ","t","o"," ","t","h","r","e","a","d"," ","w","i","t","h"," ",
      "i","d">>

\* threads.ts:86-89, the template literal with its line breaks and indentation
TXT_USAGE_HELP ==
    <<"~","t","h","r","e","a","d"," ","<","f","l","a","g",">","\n"," "," "," "," ","-","c",":",
      " ","s","t","a","r","t"," ","a"," ","n","e","w"," ","t","h","r","e","a","d","\n"," "," ",
      " "," ","-","l",":"," ","l","i","s","t"," ","t","h","r","e","a","d","s","\n"," "," "," ",
      " ","-","s"," ","<","i","d",">",":"," ","s","w","i","t","c","h"," ","t","o"," ","t","h",
      "r","e","a","d"," ","w","i","t","h"," ","i","d">>

\* threads.ts:91
TXT_INVALID_COMMAND ==
    <<"I","n","v","a","l","i","d"," ","c","o","m","m","a","n","d",".">>

\* threads.ts:93
TXT_FALLTHROUGH ==
    <<"t","e","x","t">>

\* threads.ts:126
TXT_CREATED_PRE ==
    <<"C","r","e","a","t","e","d"," ","t","h","r","e","a","d",":"," ">>

\* threads.ts:129
TXT_ERROR_CREATING ==
    <<"E","r","r","o","r"," ","c","r","e","a","t","i","n","g"," ","t","h","r","e","a","d">>

\* threads.ts:140
TXT_NO_THREADS ==
    <<"N","o"," ","t","h","r","e","a","d","s"," ","f","o","u","n","d",".">>

\* threads.ts:144
TXT_THREADS_HEAD ==
    <<"T","h","r","e","a","d","s",":","\n">>

\* threads.ts:152
TXT_ERROR_LISTING ==
    <<"E","r","r","o","r"," ","l","i","s","t","i","n","g"," ","t","h","r","e","a","d","s">>

\* threads.ts:164
TXT_NO_THREADS_SWITCH ==
    <<"N","o"," ","t","h","r","e","a","d","s"," ","f","o","u","n","d","."," ","C","r","e","a",
      "t","e"," ","a"," ","t","h","r","e","a","d"," ","f","i","r","s","t"," ","w","i","t","h",
      " ","/","t","h","r","e","a","d"," ","-","c">>

\* threads.ts:169
TXT_THREAD_PRE ==
    <<"T","h","r","e","a","d"," ">>

\* threads.ts:169
TXT_NOT_FOUND_POST ==
    <<" ","n","o","t"," ","f","o","u","n","d"," ","i","n"," ","y","o","u","r"," ","t","h","r",
      "e","a","d","s",".">>

\* threads.ts:174
TXT_SWITCHED_PRE ==
    <<"S","w","i","t","c","h","e","d"," ","t","o"," ","t","h","r","e","a","d",":"," ">>

\* threads.ts:177
TXT_ERROR_SWITCHING ==
    <<"E","r","r","o","r"," ","s","w","i","t","c","h","i","n","g"," ","t","h","r","e","a","d",
      "s">>

\* index.ts:80
TXT_NO_CHANNELS ==
    <<"N","o"," ","r","e","l","e","v","a","n","t"," ","c","h","a","n","n","e","l","s"," ","f",
      "o","u","n","d"," ","f","o","r"," ","y","o","u","r"," ","q","u","e","r","y",".">>

\* index.ts:151
TXT_FAILED_GENERATE ==
    <<"F","a","i","l","e","d"," ","t","o"," ","g","e","n","e","r","a","t","e"," ","a"," ","r",
      "e","s","p","o","n","s","e",".">>

\* memory.ts:16, 29, 46
ERR_NO_THREAD ==
    <<"N","o"," ","t","h","r","e","a","d"," ","e","x","i","s","t","s",","," ","c","r","e","a",
      "t","e"," ","o","n","e"," ","w","i","t","h"," ","'","~","t","h","r","e","a","d"," ","-",
      "c","'">>

\* index.ts:220
ERR_NO_CHANNELS ==
    <<"C","o","u","l","d"," ","n","o","t"," ","f","i","n","d"," ","a","n","y"," ","c","h","a",
      "n","n","e","l","s",".">>

(***************************************************************************)
(* String primitives of the JavaScript runtime used by the parser.         *)
(***************************************************************************)
\* String.prototype.startsWith
StartsWith(s, pre) ==
    /\ Len(s) >= Len(pre)
    /\ SubSeq(s, 1, Len(pre)) = pre

\* String.prototype.slice(n), n <= length
SliceFrom(s, n) ==
    SubSeq(s, n + 1, Len(s))

\* the characters \s matches among those the model's inputs use
IsSpace(c) ==
    c \in {" ", "\t", "\n"}

RECURSIVE TrimStart(_)
TrimStart(s) ==
    IF s # <<>> /\ IsSpace(Head(s)) THEN TrimStart(Tail(s)) ELSE s

RECURSIVE TrimEnd(_)
TrimEnd(s) ==
    IF s # <<>> /\ IsSpace(s[Len(s)]) THEN TrimEnd(SubSeq(s, 1, Len(s) - 1)) ELSE s

\* String.prototype.trim
Trim(s) ==
    TrimEnd(TrimStart(s))

\* String.prototype.split(/\s+/): the pieces between maximal runs of white
\* space; `cur` is the piece being read.
RECURSIVE SplitFrom(_, _)
SplitFrom(s, cur) ==
    IF s = <<>> THEN <<cur>>
    ELSE IF IsSpace(Head(s)) THEN <<cur>> \o SplitFrom(TrimStart(s), <<>>)
    ELSE SplitFrom(Tail(s), Append(cur, Head(s)))

SplitSpaces(s) ==
    SplitFrom(s, <<>>)

\* mutant: only the first element is compared
Includes_FirstOnly(list, x) ==
    list # <<>> /\ list[1] = x

\* mutant: every id is taken for a listed one
Includes_Always(list, x) ==
    TRUE

\* Array.prototype.includes
Includes(list, x) ==
    \E i \in 1..Len(list) : list[i] = x

\* Number -> decimal string, as `${index + 1}` does for a positive integer
DigitChars ==
    <<"0", "1", "2", "3", "4", "5", "6", "7", "8", "9">>

RECURSIVE NumberToString(_)
NumberToString(n) ==
    IF n < 10 THEN <<DigitChars[n + 1]>>
    ELSE NumberToString(n \div 10) \o <<DigitChars[(n % 10) + 1]>>

(***************************************************************************)
(* handleCommand, lines 14-94: the parse of the command text.  The result  *)
(* is either the text handleCommand returns at once, or the thread         *)
(* operation it goes on to await (flags[0] and idArg).                     *)
(***************************************************************************)
\* mutant: where handleCommand returns a text, createThread is run
Return_AsCreate(t) ==
    [kind |-> "dispatch", text |-> <<>>, flag |-> <<"-", "c">>, idArg |-> <<>>]

Return(t) ==
    [kind |-> "return", text |-> t, flag |-> <<>>, idArg |-> <<>>]

Dispatch(flag, idArg) ==
    [kind |-> "dispatch", text |-> <<>>, flag |-> flag, idArg |-> idArg]

\* lines 36-37
AcceptedFlags ==
    {"c", "l", "s"}

\* mutant: whatever follows -s is taken for the id
ParseSwitchFlag_AnyId(parts, i) ==
    IF i + 1 >= Len(parts) THEN [err |-> TRUE, text |-> TXT_S_REQUIRES_ID, idArg |-> <<>>]
    ELSE [err |-> FALSE, text |-> <<>>, idArg |-> parts[i + 2]]

\* lines 40-50: the -s branch; i is the 0-based index of the -s token
ParseSwitchFlag(parts, i) ==
    IF i + 1 >= Len(parts) THEN [err |-> TRUE, text |-> TXT_S_REQUIRES_ID, idArg |-> <<>>]
    ELSE IF StartsWith(parts[i + 2], <<"-">>)
         THEN [err |-> TRUE, text |-> TXT_ONLY_ONE_FLAG, idArg |-> <<>>]
         ELSE [err |-> FALSE, text |-> <<>>, idArg |-> parts[i + 2]]

\* lines 23-65: the while loop; i is the 0-based index, as in the source
RECURSIVE ParseLoop(_, _, _, _)
ParseLoop(parts, i, flags, idArg) ==
    IF ~(i < Len(parts)) THEN [err |-> FALSE, text |-> <<>>, flags |-> flags, idArg |-> idArg]
    ELSE LET part == parts[i + 1] IN
         IF StartsWith(part, <<"-">>) THEN
            IF Len(flags) > 0 THEN [err |-> TRUE, text |-> TXT_ONLY_ONE_FLAG, flags |-> flags, idArg |-> idArg]
            ELSE IF Len(part) = 2 THEN
                LET flag == part[2] IN
                IF flag \notin AcceptedFlags
                THEN [err |-> TRUE,
                      text |-> TXT_INVALID_FLAG_PRE \o <<flag>> \o TXT_INVALID_FLAG_POST,
                      flags |-> flags, idArg |-> idArg]
                ELSE IF flag = "s" THEN
                    LET sw == ParseSwitchFlag(parts, i) IN
                    IF sw.err THEN [err |-> TRUE, text |-> sw.text, flags |-> flags, idArg |-> idArg]
                    ELSE ParseLoop(parts, i + 2, Append(flags, <<"s">>), sw.idArg)
                ELSE ParseLoop(parts, i + 1, Append(flags, <<"-", flag>>), idArg)
            ELSE IF Len(part) > 2
                 THEN [err |-> TRUE, text |-> TXT_MULTIPLE_FLAGS, flags |-> flags, idArg |-> idArg]
                 ELSE [err |-> TRUE, text |-> TXT_INVALID_FORMAT, flags |-> flags, idArg |-> idArg]
         ELSE [err |-> TRUE, text |-> TXT_UNEXPECTED_PRE \o part, flags |-> flags, idArg |-> idArg]

\* lines 14-94
handleCommand(userQuery) ==
    IF StartsWith(userQuery, CMD_THREAD) THEN
        LET commandString == Trim(SliceFrom(userQuery, Len(CMD_THREAD))) IN
        IF commandString # <<>> THEN
            LET parsed == ParseLoop(SplitSpaces(commandString), 0, <<>>, <<>>) IN
            IF parsed.err THEN Return(parsed.text)
            ELSE IF Len(parsed.flags) = 0 THEN Return(TXT_USAGE_THREAD)
            ELSE Dispatch(parsed.flags[1], parsed.idArg)
        ELSE Return(TXT_FALLTHROUGH)
    ELSE IF StartsWith(userQuery, CMD_HELP) THEN Return(TXT_USAGE_HELP)
    ELSE Return(TXT_INVALID_COMMAND)

(***************************************************************************)
(* Bounds of the model.                                                    *)
(***************************************************************************)
\* uuid() is called at most this many times
MaxThreads ==
    2

\* at most this many external calls throw on a service error
MaxFailures ==
    1

\* the longest token list after `~thread` among the parser's inputs
MaxTokens ==
    3

(***************************************************************************)
(* The inputs.                                                             *)
(***************************************************************************)
\* the handlers that can be running at the same time
Procs ==
    {"p1", "p2"}

\* index.ts:51, requestData.userId; "" stands for a missing userId
UserIdInputs ==
    {"U1", ""}

\* index.ts:51, `requestData.userId || "dog"`
DefaultUser(userId) ==
    IF userId = "" THEN "dog" ELSE userId

Users ==
    {DefaultUser(i) : i \in UserIdInputs}

\* threads.ts:101, uuid(): the n-th identifier generated (assumed fresh)
uuid(n) ==
    <<"t">> \o NumberToString(n)

UNKNOWN_ID ==
    <<"u","n","k","n","o","w","n","1","2","3">>

SwitchTargets ==
    {uuid(n) : n \in 1..MaxThreads} \cup {UNKNOWN_ID}

QUERY_TEXT ==
    <<"f","i","n","d"," ","x">>

\* the requests of the concurrent specification
Queries ==
    {CMD_THREAD \o <<" ", "-", "c">>,
     CMD_THREAD \o <<" ", "-", "l">>,
     CMD_THREAD,
     CMD_THREAD \o <<" ", " ">>,
     CMD_THREAD \o <<" ", "-", "x">>,
     CMD_THREAD \o <<" ", "-", "c", " ", "-", "l">>,
     CMD_HELP,
     SENTINEL \o <<"x">>,
     QUERY_TEXT}
      \cup {CMD_THREAD \o <<" ", "-", "s", " ">> \o id : id \in SwitchTargets}

\* the requests of overlapping handlers
ConcurrentQueries ==
    {CMD_THREAD \o <<" ", "-", "c">>,
     CMD_THREAD \o <<" ", "-", "l">>,
     CMD_THREAD \o <<" ", "-", "s", " ">> \o uuid(1),
     CMD_THREAD \o <<" ", "-", "s", " ">> \o UNKNOWN_ID,
     CMD_HELP,
     QUERY_TEXT}

\* the tokens of the parser's inputs
Tokens ==
    {<<"-", "c">>, <<"-", "l">>, <<"-", "s">>, <<"-", "x">>, <<"-", "-">>, <<"-">>,
     <<"-", "c", "s">>, <<"f", "o", "o">>, uuid(1), UNKNOWN_ID}

TokenLists ==
    UNION {[1..n -> Tokens] : n \in 0..MaxTokens}

RECURSIVE JoinTokens(_, _)
JoinTokens(toks, sep) ==
    IF toks = <<>> THEN <<>>
    ELSE sep \o Head(toks) \o JoinTokens(Tail(toks), sep)

(***************************************************************************)
(* The state.                                                              *)
(***************************************************************************)
VARIABLES
    kvThreads,    \* ctx.kv "slackq-threads": userId -> the thread list, if any
    kvCurrent,    \* ctx.kv "slackq-current-thread": userId -> the thread id, if any
    zepUsers,     \* the users the memory service knows
    zepThreads,   \* the threads registered with the memory service, with owner
                  \* (what the service stores in a thread is never read back
                  \* by a branch of the code: a request keeps the thread it
                  \* writes to in threadId and the write in calls)
    uuids,        \* how many identifiers uuid() has generated
    failures,     \* how many external calls have thrown so far
    createdLog,   \* history: per user, the ids `~thread -c` has confirmed, newest
                  \* first, and whether a `~thread -c` of the user has failed
    proc          \* the request each handler is serving, and where it stands
                  \* (with, as history, the thread ids it has read and, for a
                  \* `~thread -c`, the user's two entries as they were when it
                  \* arrived)

VARIABLE
    ingress       \* the Slack event the ingress adapter is serving: its payload,
                  \* its response, and where the work it dispatched stands

vars ==
    <<kvThreads, kvCurrent, zepUsers, zepThreads, uuids, failures, createdLog, proc,
      ingress>>

\* a key that was never set: `dataRes.exists` is false
Absent ==
    [exists |-> FALSE, data |-> <<>>]

Present(v) ==
    [exists |-> TRUE, data |-> v]

NoResult ==
    [kind |-> "none", text |-> <<>>]

\* resp.text(t): the handler resolves with the text
Responds(t) ==
    [kind |-> "text", text |-> t]

\* the handler's promise rejects with Error(msg)
Throws(msg) ==
    [kind |-> "throw", text |-> msg]

Idle ==
    [pc |-> "idle", userId |-> "", userQuery |-> <<>>, result |-> NoResult,
     operation |-> "", threadId |-> <<>>, threadIds |-> <<>>,
     prevThreads |-> <<>>, idArg |-> <<>>,
     before |-> [threads |-> Absent, current |-> Absent],
     allChannels |-> <<>>, relevantChannels |-> <<>>, searched |-> 0,
     messages |-> <<>>, searchResults |-> <<>>, finalResponse |-> <<>>,
     selectionText |-> [kind |-> "none", items |-> <<>>],
     relevanceText |-> [kind |-> "none", items |-> <<>>],
     clock |-> 0, todayString |-> <<>>,
     responseText |-> [kind |-> "none", startDate |-> <<>>, endDate |-> <<>>],
     dateStrings |-> [startDate |-> <<>>, endDate |-> <<>>],
     range |-> [oldest |-> [nan |-> FALSE, v |-> 0], latest |-> [nan |-> FALSE, v |-> 0],
                limit |-> [nan |-> FALSE, v |-> 0]],
     calls |-> <<>>]

\* slackbot/index.ts:9 and 16-22: a payload, with "" and <<>> for what it
\* does not carry
NoEvent ==
    [type |-> "", text |-> <<>>, user |-> "", channel |-> "", ts |-> ""]

Payload(challenge, event) ==
    [challenge |-> challenge, event |-> event]

\* the ingress adapter waits for a request
IngressIdle ==
    [pc |-> "idle", payload |-> Payload(<<>>, NoEvent), response |-> NoResult,
     work |-> "none", userQuery |-> <<>>, userId |-> "", channel |-> "", messageTs |-> "",
     result |-> NoResult, calls |-> <<>>, posts |-> <<>>, errors |-> 0]

Init ==
    /\ ingress = IngressIdle
    /\ kvThreads = [u \in Users |-> Absent]
    /\ kvCurrent = [u \in Users |-> Absent]
    /\ zepUsers = {}
    /\ zepThreads = {}
    /\ uuids = 0
    /\ failures = 0
    /\ createdLog = [u \in Users |-> [ids |-> <<>>, failed |-> FALSE]]
    /\ proc = [p \in Procs |-> Idle]

(***************************************************************************)
(* Helpers of the actions.                                                 *)
(***************************************************************************)
At(p, pc) ==
    proc[p].pc = pc

\* the handler of p goes on to its next await, with these locals changed
Goto(p, pc, changes) ==
    /\ proc' = [proc EXCEPT ![p] = [f \in DOMAIN proc[p] |->
                IF f = "pc" THEN pc
                ELSE IF f \in DOMAIN changes THEN changes[f]
                ELSE proc[p][f]]]
    /\ UNCHANGED ingress

\* the external call `name` is issued by p
Called(p, name) ==
    Append(proc[p].calls, name)

\* the handler of p settles: it responds with a text or rejects
Settle(p, result, name) ==
    Goto(p, "done", [result |-> result, calls |-> Called(p, name)])

\* the outcomes an external call can have: it returns (TRUE) or throws
Outcomes(env) ==
    IF failures < MaxFailures THEN env.outcomes ELSE {TRUE}

Counted(ok) ==
    failures' = IF ok THEN failures ELSE failures + 1

UnchangedKv ==
    UNCHANGED <<kvThreads, kvCurrent>>

UnchangedZep ==
    UNCHANGED <<zepUsers, zepThreads>>

(***************************************************************************)
(* index.ts:50-57 and threads.ts:9-94: a request arrives; a `~` input goes *)
(* to handleCommand, which answers or starts a thread operation.           *)
(***************************************************************************)
\* mutant: only `~thread` is taken for a command
IsCommand_ThreadOnly(userQuery) ==
    StartsWith(userQuery, CMD_THREAD)

\* index.ts:54
IsCommand(userQuery) ==
    StartsWith(userQuery, SENTINEL)

\* threads.ts:77-83: the operation flags[0] selects
OperationOf(flag) ==
    IF flag = <<"-", "c">> THEN "create"
    ELSE IF flag = <<"-", "l">> THEN "list"
    ELSE "switch"

\* what the request record holds once the body was read (index.ts:50-52)
Received(p, userIdInput, userQuery) ==
    [userId |-> DefaultUser(userIdInput), userQuery |-> userQuery]

\* a command that handleCommand answers without any thread operation
ReceiveAnswered(p, env) ==
    /\ At(p, "idle")
    /\ \E i \in env.userIds, q \in env.queries :
        /\ IsCommand(q)
        /\ handleCommand(q).kind = "return"
        /\ Goto(p, "done", Received(p, i, q) @@ [result |-> Responds(handleCommand(q).text)])
    /\ UNCHANGED <<kvThreads, kvCurrent, zepUsers, zepThreads, uuids>>
    /\ UNCHANGED <<failures, createdLog>>

\* `~thread -c`: createThread runs to its first await (threads.ts:101-104)
ReceiveCreate(p, env) ==
    /\ At(p, "idle")
    /\ uuids < MaxThreads
    /\ \E i \in env.userIds, q \in env.queries :
        /\ IsCommand(q)
        /\ handleCommand(q).kind = "dispatch"
        /\ OperationOf(handleCommand(q).flag) = "create"
        /\ Goto(p, "c_userGet", Received(p, i, q) @@
                    [threadId |-> uuid(uuids + 1),
                     before |-> [threads |-> kvThreads[DefaultUser(i)],
                                 current |-> kvCurrent[DefaultUser(i)]]])
    /\ uuids' = uuids + 1
    /\ UNCHANGED <<kvThreads, kvCurrent, zepUsers, zepThreads>>
    /\ UNCHANGED <<failures, createdLog>>

\* `~thread -l`: listThreads runs to its await (threads.ts:138)
ReceiveList(p, env) ==
    /\ At(p, "idle")
    /\ \E i \in env.userIds, q \in env.queries :
        /\ IsCommand(q)
        /\ handleCommand(q).kind = "dispatch"
        /\ OperationOf(handleCommand(q).flag) = "list"
        /\ Goto(p, "l_kvGet", Received(p, i, q))
    /\ UNCHANGED <<kvThreads, kvCurrent, zepUsers, zepThreads, uuids>>
    /\ UNCHANGED <<failures, createdLog>>

\* `~thread -s <id>`: switchThreads runs to its first await (threads.ts:162)
ReceiveSwitch(p, env) ==
    /\ At(p, "idle")
    /\ \E i \in env.userIds, q \in env.queries :
        /\ IsCommand(q)
        /\ handleCommand(q).kind = "dispatch"
        /\ OperationOf(handleCommand(q).flag) = "switch"
        /\ Goto(p, "s_kvGet", Received(p, i, q) @@ [idArg |-> handleCommand(q).idArg])
    /\ UNCHANGED <<kvThreads, kvCurrent, zepUsers, zepThreads, uuids>>
    /\ UNCHANGED <<failures, createdLog>>

(***************************************************************************)
(* createThread, threads.ts:96-131.  Every external call either succeeds   *)
(* or throws; a throw outside the inner try ends in the outer catch.       *)
(***************************************************************************)
CreateFailed(p, name) ==
    /\ Settle(p, Responds(TXT_ERROR_CREATING), name)
    /\ createdLog' = [createdLog EXCEPT ![proc[p].userId].failed = TRUE]

\* lines 103-107: zep.user.get; any throw leads to zep.user.add
CreateUserGet(p, env) ==
    /\ At(p, "c_userGet")
    /\ \E ok \in Outcomes(env) :
        /\ Counted(ok)
        /\ IF ok /\ proc[p].userId \in zepUsers
           THEN Goto(p, "c_threadCreate", [calls |-> Called(p, "zep.user.get")])
           ELSE Goto(p, "c_userAdd", [calls |-> Called(p, "zep.user.get")])
    /\ UNCHANGED <<kvThreads, kvCurrent, zepUsers, zepThreads, uuids, createdLog>>

\* line 106: zep.user.add
CreateUserAdd(p, env) ==
    /\ At(p, "c_userAdd")
    /\ \E ok \in Outcomes(env) :
        /\ Counted(ok)
        /\ IF ok
           THEN /\ zepUsers' = zepUsers \cup {proc[p].userId}
                /\ Goto(p, "c_threadCreate", [calls |-> Called(p, "zep.user.add")])
                /\ UNCHANGED createdLog
           ELSE /\ CreateFailed(p, "zep.user.add")
                /\ UNCHANGED zepUsers
    /\ UNCHANGED <<kvThreads, kvCurrent, zepThreads, uuids>>

\* lines 109-112: zep.thread.create
CreateZepThread(p, env) ==
    /\ At(p, "c_threadCreate")
    /\ \E ok \in Outcomes(env) :
        /\ Counted(ok)
        /\ IF ok
           THEN /\ zepThreads' = zepThreads \cup
                       {[threadId |-> proc[p].threadId, userId |-> proc[p].userId]}
                /\ Goto(p, "c_kvGet", [calls |-> Called(p, "zep.thread.create")])
                /\ UNCHANGED createdLog
           ELSE /\ CreateFailed(p, "zep.thread.create")
                /\ UNCHANGED zepThreads
    /\ UNCHANGED <<kvThreads, kvCurrent, zepUsers, uuids>>

\* mutant: the new id is pushed to the end
Unshift_Push(list, x) ==
    Append(list, x)

\* Array.prototype.unshift
Unshift(list, x) ==
    <<x>> \o list

\* mutant: the list as read is not kept
NewThreadList_Fresh(dataRes, threadId) ==
    <<threadId>>

\* lines 115-121: the list createThread is going to write
NewThreadList(dataRes, threadId) ==
    IF dataRes.exists THEN Unshift(dataRes.data, threadId) ELSE <<threadId>>

\* lines 114-121: kv.get of the thread list
CreateKvGet(p, env) ==
    /\ At(p, "c_kvGet")
    /\ \E ok \in Outcomes(env) :
        /\ Counted(ok)
        /\ IF ok
           THEN /\ Goto(p, "c_kvSetThreads",
                        [prevThreads |-> NewThreadList(kvThreads[proc[p].userId], proc[p].threadId),
                         calls |-> Called(p, "kv.get")])
                /\ UNCHANGED createdLog
           ELSE CreateFailed(p, "kv.get")
    /\ UNCHANGED <<kvThreads, kvCurrent, zepUsers, zepThreads, uuids>>

\* line 122: kv.set of the thread list
CreateKvSetThreads(p, env) ==
    /\ At(p, "c_kvSetThreads")
    /\ \E ok \in Outcomes(env) :
        /\ Counted(ok)
        /\ IF ok
           THEN /\ kvThreads' = [kvThreads EXCEPT ![proc[p].userId] = Present(proc[p].prevThreads)]
                /\ Goto(p, "c_kvSetCurrent", [calls |-> Called(p, "kv.set")])
                /\ UNCHANGED createdLog
           ELSE /\ CreateFailed(p, "kv.set")
                /\ UNCHANGED kvThreads
    /\ UNCHANGED <<kvCurrent, zepUsers, zepThreads, uuids>>

\* lines 123-126: kv.set of the current thread, and the confirmation
CreateKvSetCurrent(p, env) ==
    /\ At(p, "c_kvSetCurrent")
    /\ \E ok \in Outcomes(env) :
        /\ Counted(ok)
        /\ IF ok
           THEN /\ kvCurrent' = [kvCurrent EXCEPT ![proc[p].userId] = Present(proc[p].threadId)]
                /\ Settle(p, Responds(TXT_CREATED_PRE \o proc[p].threadId), "kv.set")
                /\ createdLog' = [createdLog EXCEPT ![proc[p].userId].ids =
                                    <<proc[p].threadId>> \o @]
           ELSE /\ CreateFailed(p, "kv.set")
                /\ UNCHANGED kvCurrent
    /\ UNCHANGED <<kvThreads, zepUsers, zepThreads, uuids>>

(***************************************************************************)
(* listThreads, threads.ts:133-154.                                        *)
(***************************************************************************)
\* lines 144-147: the numbered lines, `index` 0-based as in forEach
RECURSIVE ListingFrom(_, _)
ListingFrom(threads, index) ==
    IF threads = <<>> THEN <<>>
    ELSE NumberToString(index + 1) \o <<".", " ">> \o Head(threads) \o <<"\n">>
            \o ListingFrom(Tail(threads), index + 1)

\* mutant: the lines are numbered from 0
ListingText_ZeroBased(dataRes) ==
    IF ~dataRes.exists THEN TXT_NO_THREADS
    ELSE TXT_THREADS_HEAD \o ListingFrom(dataRes.data, -1)

\* lines 139-149
ListingText(dataRes) ==
    IF ~dataRes.exists THEN TXT_NO_THREADS
    ELSE TXT_THREADS_HEAD \o ListingFrom(dataRes.data, 0)

ListThreads(p, env) ==
    /\ At(p, "l_kvGet")
    /\ \E ok \in Outcomes(env) :
        /\ Counted(ok)
        /\ IF ok
           THEN Settle(p, Responds(ListingText(kvThreads[proc[p].userId])), "kv.get")
           ELSE Settle(p, Responds(TXT_ERROR_LISTING), "kv.get")
    /\ UNCHANGED <<kvThreads, kvCurrent, zepUsers, zepThreads, uuids, createdLog>>

(***************************************************************************)
(* switchThreads, threads.ts:156-179.                                      *)
(***************************************************************************)
\* lines 162-170: kv.get of the thread list and the two refusals
SwitchKvGet(p, env) ==
    /\ At(p, "s_kvGet")
    /\ \E ok \in Outcomes(env) :
        /\ Counted(ok)
        /\ LET dataRes == kvThreads[proc[p].userId] IN
           IF ~ok THEN Settle(p, Responds(TXT_ERROR_SWITCHING), "kv.get")
           ELSE IF ~dataRes.exists THEN Settle(p, Responds(TXT_NO_THREADS_SWITCH), "kv.get")
           ELSE IF ~Includes(dataRes.data, proc[p].idArg)
                THEN Settle(p, Responds(TXT_THREAD_PRE \o proc[p].idArg \o TXT_NOT_FOUND_POST), "kv.get")
           ELSE Goto(p, "s_kvSet", [calls |-> Called(p, "kv.get")])
    /\ UNCHANGED <<kvThreads, kvCurrent, zepUsers, zepThreads, uuids, createdLog>>

\* lines 172-174: kv.set of the current thread, and the confirmation
SwitchKvSet(p, env) ==
    /\ At(p, "s_kvSet")
    /\ \E ok \in Outcomes(env) :
        /\ Counted(ok)
        /\ IF ok
           THEN /\ kvCurrent' = [kvCurrent EXCEPT ![proc[p].userId] = Present(proc[p].idArg)]
                /\ Settle(p, Responds(TXT_SWITCHED_PRE \o proc[p].idArg), "kv.set")
           ELSE /\ Settle(p, Responds(TXT_ERROR_SWITCHING), "kv.set")
                /\ UNCHANGED kvCurrent
    /\ UNCHANGED <<kvThreads, zepUsers, zepThreads, uuids, createdLog>>

(***************************************************************************)
(* The query pipeline's pure parts, index.ts:199-394.  A model response is *)
(* what JSON.parse makes of message.content: no content at all ("empty"),  *)
(* text that does not parse ("invalid"), an array ("array"), or any other  *)
(* JSON value ("scalar").                                                  *)
(***************************************************************************)
\* index.ts:265 and 377: `content || "[]"`
OrEmptyArray(content) ==
    IF content.kind = "empty" THEN [kind |-> "array", items |-> <<>>] ELSE content

\* mutant: the fallback is the whole directory
FirstChannels_All(allChannels) ==
    allChannels

\* index.ts:284, allChannels.slice(0, 3)
FirstChannels(allChannels) ==
    SubSeq(allChannels, 1, IF Len(allChannels) < 3 THEN Len(allChannels) ELSE 3)

\* index.ts:274-279 and 284-289: the descriptor of a channel
Descriptor(ch) ==
    [id |-> ch.id, name |-> ch.name]

\* index.ts:265-290: the list selectRelevantChannels returns.  Reading
\* .length and .map of a JSON value that is no array throws inside the try,
\* so it ends in the catch like text that does not parse.
SelectedChannels(allChannels, content) ==
    LET selection == OrEmptyArray(content) IN
    IF selection.kind = "array"
    THEN [i \in 1..Len(selection.items) |-> Descriptor(selection.items[i])]
    ELSE [i \in 1..Len(FirstChannels(allChannels)) |-> Descriptor(FirstChannels(allChannels)[i])]

\* index.ts:325-334: a fetched message, normalized
Normalized(msg) ==
    [text |-> msg.text, ts |-> msg.ts, user |-> msg.user, attachments |-> <<>>]

\* An entry of the JSON array the relevance model answers with: a number,
\* held as twice its value so that n + 1/2 is told from n, or null.
\* the number n
Index(n) ==
    [json |-> "number", twice |-> 2 * n]

\* the number n + 0.5
HalfIndex(n) ==
    [json |-> "number", twice |-> 2 * n + 1]

\* null, which `>=` and `<` take for the number 0
JSON_NULL ==
    [json |-> "null", twice |-> 0]

\* index.ts:382, `idx >= 0 && idx < messages.length`
InRange(idx, length) ==
    idx.twice >= 0 /\ idx.twice < 2 * length

\* what reading an element that is not there gives
UndefinedElement ==
    [undefined |-> TRUE]

\* index.ts:383, `messages[idx]`: the element under the key String(idx)
ElementAt(messages, idx) ==
    IF /\ idx.json = "number"
       /\ idx.twice % 2 = 0
       /\ idx.twice >= 0
       /\ idx.twice \div 2 < Len(messages)
    THEN messages[idx.twice \div 2 + 1]
    ELSE UndefinedElement

\* Array.prototype.filter with the range test of index.ts:382
RECURSIVE InRangeIndices(_, _)
InRangeIndices(indices, length) ==
    IF indices = <<>> THEN <<>>
    ELSE IF InRange(Head(indices), length)
         THEN <<Head(indices)>> \o InRangeIndices(Tail(indices), length)
         ELSE InRangeIndices(Tail(indices), length)

\* mutant: the fallback of the channel selection, applied to the messages
RelevantMessages_FirstThree(messages, content) ==
    LET relevance == OrEmptyArray(content) IN
    IF relevance.kind = "array"
    THEN LET kept == InRangeIndices(relevance.items, Len(messages)) IN
         [i \in 1..Len(kept) |-> ElementAt(messages, kept[i])]
    ELSE SubSeq(messages, 1, IF Len(messages) < 3 THEN Len(messages) ELSE 3)

\* index.ts:377-393: the messages searchChannelHistory returns
RelevantMessages(messages, content) ==
    LET relevance == OrEmptyArray(content) IN
    IF relevance.kind = "array"
    THEN LET kept == InRangeIndices(relevance.items, Len(messages)) IN
         [i \in 1..Len(kept) |-> ElementAt(messages, kept[i])]
    ELSE <<>>

\* index.ts:368: the messages that are put into the relevance prompt
PROMPT_LIMIT ==
    50

\* index.ts:367-368, messages.slice(0, 50)
Presented(messages) ==
    SubSeq(messages, 1, IF Len(messages) < PROMPT_LIMIT THEN Len(messages) ELSE PROMPT_LIMIT)

\* index.ts:93-97
SearchResult(channel, messages) ==
    [channel_name |-> channel.name, channel_id |-> channel.id, messages |-> messages]

ANSWER_TEXT ==
    <<"a","n","s","w","e","r">>

\* index.ts:150-151
FinalResponse(content) ==
    IF content = <<>> THEN TXT_FAILED_GENERATE ELSE content

(***************************************************************************)
(* helpers.ts: the date range of a channel search.  An instant is a number *)
(* of seconds since the epoch (the code's milliseconds, all of them whole  *)
(* seconds here), read in a time zone without offset; a JavaScript number  *)
(* is an integer or NaN.                                                   *)
(***************************************************************************)
Num(v) ==
    [nan |-> FALSE, v |-> v]

NaN ==
    [nan |-> TRUE, v |-> 0]

SECONDS_PER_DAY ==
    86400

\* Date: the day number (days since 1970-01-01) of a calendar date
DaysFromCivil(year, month, day) ==
    LET y == IF month <= 2 THEN year - 1 ELSE year
        era == y \div 400
        yoe == y - era * 400
        mp == IF month > 2 THEN month - 3 ELSE month + 9
        doy == (153 * mp + 2) \div 5 + day - 1
        doe == yoe * 365 + yoe \div 4 - yoe \div 100 + doy
    IN  era * 146097 + doe - 719468

\* Date: the calendar date of a day number (getFullYear, getMonth() + 1,
\* getDate)
CivilFromDays(days) ==
    LET z == days + 719468
        era == z \div 146097
        doe == z - era * 146097
        yoe == (doe - doe \div 1460 + doe \div 36524 - doe \div 146096) \div 365
        doy == doe - (365 * yoe + yoe \div 4 - yoe \div 100)
        mp == (5 * doy + 2) \div 153
        month == IF mp < 10 THEN mp + 3 ELSE mp - 9
    IN  [year |-> IF month <= 2 THEN yoe + era * 400 + 1 ELSE yoe + era * 400,
         month |-> month,
         day |-> doy - (153 * mp + 2) \div 5 + 1]

\* String(n).padStart(2, "0")
PadStart2(n) ==
    IF Len(NumberToString(n)) < 2 THEN <<"0">> \o NumberToString(n) ELSE NumberToString(n)

\* helpers.ts:53-62 and 89-92: `MM/DD/YYYY` of the day an instant falls on
FormatDate(instant) ==
    LET date == CivilFromDays(instant \div SECONDS_PER_DAY) IN
    PadStart2(date.month) \o <<"/">> \o PadStart2(date.day) \o <<"/">> \o NumberToString(date.year)

\* helpers.ts:87-93; now is what `new Date()` reads
getTodayDateString(now) ==
    FormatDate(now)

IsDigits(s) ==
    \A i \in 1..Len(s) : \E d \in 1..10 : DigitChars[d] = s[i]

\* the number a string of digits denotes
RECURSIVE DigitsToNumber(_)
DigitsToNumber(s) ==
    IF s = <<>> THEN 0
    ELSE 10 * DigitsToNumber(SubSeq(s, 1, Len(s) - 1))
            + ((CHOOSE d \in 1..10 : DigitChars[d] = s[Len(s)]) - 1)

\* new Date(text).getTime(): the start of the day `MM/DD/YYYY` names, and
\* NaN (Invalid Date) for undefined and for text that names no date
DateOf(text) ==
    IF /\ Len(text) = 10
       /\ text[3] = "/"
       /\ text[6] = "/"
       /\ IsDigits(SubSeq(text, 1, 2) \o SubSeq(text, 4, 5) \o SubSeq(text, 7, 10))
    THEN LET month == DigitsToNumber(SubSeq(text, 1, 2))
             day == DigitsToNumber(SubSeq(text, 4, 5))
             year == DigitsToNumber(SubSeq(text, 7, 10))
         IN  IF /\ month \in 1..12
                /\ day >= 1
                /\ CivilFromDays(DaysFromCivil(year, month, day)) =
                        [year |-> year, month |-> month, day |-> day]
             THEN Num(DaysFromCivil(year, month, day) * SECONDS_PER_DAY)
             ELSE NaN
    ELSE NaN

\* a property that is not there reads as undefined
UNDEFINED ==
    <<>>

DEFAULT_START ==
    <<"1","2","/","0","3","/","2","0","2","4">>

DEFAULT_END ==
    <<"0","1","/","0","2","/","2","0","2","5">>

\* helpers.ts:42-64: what extractDateStrings resolves to.  The content is
\* the model's message: none ("empty"), text that does not parse
\* ("invalid"), an object with the two properties it has ("object"), or
\* another JSON value, returned as it is ("scalar": reading a property of it
\* gives undefined).  JSON `null` is dealt with where it is read.
extractDateStrings(todayDateString, content, now) ==
    IF content.kind = "empty" THEN [startDate |-> DEFAULT_START, endDate |-> DEFAULT_END]
    ELSE IF content.kind = "invalid"
         THEN [startDate |-> FormatDate(now - 30 * 24 * 60 * 60), endDate |-> FormatDate(now)]
    ELSE IF content.kind = "object"
         THEN [startDate |-> content.startDate, endDate |-> content.endDate]
    ELSE [startDate |-> UNDEFINED, endDate |-> UNDEFINED]

\* Math.floor(x / 1000) of an instant: its seconds
FloorSeconds(x) ==
    IF x.nan THEN NaN ELSE Num(x.v)

\* helpers.ts:79-81: Math.ceil((end - start) / (24 * 60 * 60 * 1000))
DaysDiff(startDate, endDate) ==
    IF startDate.nan \/ endDate.nan THEN NaN
    ELSE Num(-((startDate.v - endDate.v) \div SECONDS_PER_DAY))

\* Math.max and Math.min: NaN when an argument is NaN
MathMax(x, y) ==
    IF x.nan \/ y.nan THEN NaN ELSE IF x.v >= y.v THEN x ELSE y

MathMin(x, y) ==
    IF x.nan \/ y.nan THEN NaN ELSE IF x.v <= y.v THEN x ELSE y

Times(x, n) ==
    IF x.nan THEN NaN ELSE Num(x.v * n)

\* helpers.ts:67-85
convertToUnixTimestamps(dateStrings) ==
    LET startDate == DateOf(dateStrings.startDate)
        endDate == DateOf(dateStrings.endDate)
    IN  [oldest |-> FloorSeconds(startDate),
         latest |-> FloorSeconds(endDate),
         limit |-> MathMin(MathMax(Times(DaysDiff(startDate, endDate), 5), Num(50)), Num(200))]

(***************************************************************************)
(* The inputs of the pipeline: what the external services answer.          *)
(***************************************************************************)
\* the most channels a directory listing or a selection holds
MaxChannels ==
    4

\* the most indices a relevance answer holds
MaxIndices ==
    6

\* the response of a composio tool: with the list asked for, or without
\* (`?.data?.channels` and `?.data?.messages` read undefined)
Data(items) ==
    [hasData |-> TRUE, items |-> items]

NoData ==
    [hasData |-> FALSE, items |-> <<>>]

\* index.ts:215 and 324: `response?.data?.<list> || []`
OrEmptyList(response) ==
    IF response.hasData THEN response.items ELSE <<>>

Channel(n) ==
    [id |-> <<"C">> \o NumberToString(n), name |-> <<"c","h">> \o NumberToString(n)]

\* the first n channels of the workspace
Channels(n) ==
    [i \in 1..n |-> Channel(i)]

\* SLACK_LIST_ALL_CHANNELS: no channel, or four of them
Directories ==
    {Data(<<>>), Data(<<Channel(1), Channel(2), Channel(3), Channel(4)>>)}

\* the selection model's answers
SelectionContents ==
    {[kind |-> "empty", items |-> <<>>],
     [kind |-> "invalid", items |-> <<>>],
     [kind |-> "scalar", items |-> <<>>],
     [kind |-> "array", items |-> <<>>],
     [kind |-> "array", items |-> <<Channel(2), Channel(1)>>]}

Message(n) ==
    [text |-> <<"m">> \o NumberToString(n), ts |-> NumberToString(n), user |-> "U1"]

\* SLACK_FETCH_CONVERSATION_HISTORY: no message, or two of them
Histories ==
    {Data(<<>>), Data(<<Message(0), Message(1)>>)}

\* the relevance model's answers
RelevanceContents ==
    {[kind |-> "invalid", items |-> <<>>],
     [kind |-> "array", items |-> <<Index(1), Index(7)>>]}

\* the synthesis model's answers: no content, or a text
SynthesisContents ==
    {<<>>, ANSWER_TEXT}

\* the date-range model's answer with the two dates given
DateRange(startDate, endDate) ==
    [kind |-> "object", startDate |-> startDate, endDate |-> endDate]

DateContent(kind) ==
    [kind |-> kind, startDate |-> UNDEFINED, endDate |-> UNDEFINED]

\* 06/15/2024, 12:00:00
NOON ==
    DaysFromCivil(2024, 6, 15) * SECONDS_PER_DAY + 12 * 60 * 60

\* the instants the clock is read at, where it does not matter
Clocks ==
    {NOON}

\* the date-range model's answers, where they do not matter
DateContents ==
    {DateRange(FormatDate(NOON - 7 * SECONDS_PER_DAY), FormatDate(NOON))}

\* the directory listings of the query specification: none, an empty one,
\* and the first n channels for every n up to MaxChannels
PipelineDirectories ==
    {NoData} \cup {Data(Channels(n)) : n \in 0..MaxChannels}

\* the selection model's answers there: with the whole workspace selected,
\* and with a channel the directory may not list
PipelineSelections ==
    SelectionContents \cup
        {[kind |-> "array", items |-> Channels(MaxChannels)],
         [kind |-> "array", items |-> <<Channel(MaxChannels + 1)>>]}

PipelineHistories ==
    {NoData, Data(<<>>), Data(<<Message(0)>>), Data(<<Message(0), Message(1)>>)}

\* the relevance model's answers there: MaxIndices indices that are all in
\* range for two messages, among others
PipelineRelevances ==
    RelevanceContents \cup
        {[kind |-> "empty", items |-> <<>>],
         [kind |-> "scalar", items |-> <<>>],
         [kind |-> "array", items |-> [i \in 1..MaxIndices |-> Index((i + 1) % 2)]]}

(***************************************************************************)
(* Agent, index.ts:45-157, for an input that is no command.  An external   *)
(* call that throws rejects the handler: Agent has no try/catch.           *)
(***************************************************************************)
\* the error of an external service, whose message the code does not set
UPSTREAM_ERROR ==
    <<>>

\* reading a property of null: a TypeError, its message the engine's
TYPE_ERROR ==
    <<"T","y","p","e","E","r","r","o","r">>

Rejected(p, msg, name) ==
    Settle(p, Throws(msg), name)

\* index.ts:54-61: getMemoryContext runs to its kv.get (memory.ts:14)
ReceiveQuery(p, env) ==
    /\ At(p, "idle")
    /\ \E i \in env.userIds, q \in env.queries :
        /\ ~IsCommand(q)
        /\ Goto(p, "q_contextKv", Received(p, i, q))
    /\ UNCHANGED <<kvThreads, kvCurrent, zepUsers, zepThreads, uuids>>
    /\ UNCHANGED <<failures, createdLog>>

\* memory.ts:14-18, 27-31, 44-49: the current thread id, or the throw.
\* threadIds keeps the ids the request has read so far, one per function.
CurrentThreadStep(p, ok, next) ==
    LET currentThreadRes == kvCurrent[proc[p].userId] IN
    IF ~ok THEN Rejected(p, UPSTREAM_ERROR, "kv.get")
    ELSE IF ~currentThreadRes.exists THEN Rejected(p, ERR_NO_THREAD, "kv.get")
    ELSE Goto(p, next, [threadId |-> currentThreadRes.data,
                        threadIds |-> Append(proc[p].threadIds, currentThreadRes.data),
                        calls |-> Called(p, "kv.get")])

\* an external call that changes nothing here: it throws, or the handler goes on
CallStep(p, ok, name, next) ==
    IF ok THEN Goto(p, next, [calls |-> Called(p, name)])
    ELSE Rejected(p, UPSTREAM_ERROR, name)

\* memory.ts:14-18 (getMemoryContext)
QueryContextKv(p, env) ==
    /\ At(p, "q_contextKv")
    /\ \E ok \in Outcomes(env) : Counted(ok) /\ CurrentThreadStep(p, ok, "q_contextZep")
    /\ UNCHANGED <<kvThreads, kvCurrent, zepUsers, zepThreads, uuids, createdLog>>

\* memory.ts:21-22 (getMemoryContext), then index.ts:62 and memory.ts:27
QueryContextZep(p, env) ==
    /\ At(p, "q_contextZep")
    /\ \E ok \in Outcomes(env) : Counted(ok) /\ CallStep(p, ok, "zep.thread.getUserContext", "q_historyKv")
    /\ UNCHANGED <<kvThreads, kvCurrent, zepUsers, zepThreads, uuids, createdLog>>

\* memory.ts:27-31 (getThreadHistory)
QueryHistoryKv(p, env) ==
    /\ At(p, "q_historyKv")
    /\ \E ok \in Outcomes(env) : Counted(ok) /\ CurrentThreadStep(p, ok, "q_historyZep")
    /\ UNCHANGED <<kvThreads, kvCurrent, zepUsers, zepThreads, uuids, createdLog>>

\* memory.ts:34-35 (getThreadHistory), then index.ts:65 and 166
QueryHistoryZep(p, env) ==
    /\ At(p, "q_historyZep")
    /\ \E ok \in Outcomes(env) : Counted(ok) /\ CallStep(p, ok, "zep.thread.get", "q_instructions")
    /\ UNCHANGED <<kvThreads, kvCurrent, zepUsers, zepThreads, uuids, createdLog>>

\* index.ts:166-194 (generateSearchInstructions), then index.ts:73 and 205
QueryInstructions(p, env) ==
    /\ At(p, "q_instructions")
    /\ \E ok \in Outcomes(env) : Counted(ok) /\ CallStep(p, ok, "openai.instructions", "q_listChannels")
    /\ UNCHANGED <<kvThreads, kvCurrent, zepUsers, zepThreads, uuids, createdLog>>

\* mutant: an empty directory is let through
NoChannels_Never(allChannels) ==
    FALSE

\* index.ts:219
NoChannels(allChannels) ==
    Len(allChannels) <= 0

\* index.ts:205-221: the directory listing, and the throw when it is empty
QueryListChannels(p, env) ==
    /\ At(p, "q_listChannels")
    /\ \E ok \in Outcomes(env), channelsResponse \in env.directories :
        /\ Counted(ok)
        /\ LET allChannels == OrEmptyList(channelsResponse) IN
           IF ~ok THEN Rejected(p, UPSTREAM_ERROR, "composio.SLACK_LIST_ALL_CHANNELS")
           ELSE IF NoChannels(allChannels)
                THEN Rejected(p, ERR_NO_CHANNELS, "composio.SLACK_LIST_ALL_CHANNELS")
           ELSE Goto(p, "q_select", [allChannels |-> allChannels,
                                     calls |-> Called(p, "composio.SLACK_LIST_ALL_CHANNELS")])
    /\ UNCHANGED <<kvThreads, kvCurrent, zepUsers, zepThreads, uuids, createdLog>>

\* mutant: the short circuit is missing
NoChannelSelected_Never(relevantChannels) ==
    FALSE

\* index.ts:79-81: the short circuit
NoChannelSelected(relevantChannels) ==
    Len(relevantChannels) = 0

\* mutant: the loop leaves after the first channel
LoopNext_FirstOnly(relevantChannels, searched) ==
    "q_synthesis"

\* index.ts:85 and 101: `for (const channel of relevantChannels)` goes on
\* to the next channel's search, or leaves for the synthesis
LoopNext(relevantChannels, searched) ==
    IF searched < Len(relevantChannels) THEN "q_dates" ELSE "q_synthesis"

\* the clock does not run backwards
Later(p, env) ==
    {now \in env.clocks : now >= proc[p].clock}

\* index.ts:224-290 and 79-87: the selection, the short circuit, and the
\* first channel's search up to its first await (index.ts:301-303 and
\* helpers.ts:14)
QuerySelect(p, env) ==
    /\ At(p, "q_select")
    /\ \E ok \in Outcomes(env), content \in env.selections, now \in Later(p, env) :
        /\ Counted(ok)
        /\ LET relevantChannels == SelectedChannels(proc[p].allChannels, content) IN
           IF ~ok THEN Rejected(p, UPSTREAM_ERROR, "openai.selection")
           ELSE IF NoChannelSelected(relevantChannels)
                THEN Goto(p, "done", [selectionText |-> content,
                                      relevantChannels |-> relevantChannels,
                                      result |-> Responds(TXT_NO_CHANNELS),
                                      calls |-> Called(p, "openai.selection")])
           ELSE Goto(p, "q_dates", [selectionText |-> content,
                                    relevantChannels |-> relevantChannels,
                                    clock |-> now,
                                    todayString |-> getTodayDateString(now),
                                    calls |-> Called(p, "openai.selection")])
    /\ UNCHANGED <<kvThreads, kvCurrent, zepUsers, zepThreads, uuids, createdLog>>

\* index.ts:303-304 (searchChannelHistory): the date-range model call, the
\* range it resolves to, and the limits of the fetch.  The selection's
\* locals are gone by now.
QueryDates(p, env) ==
    /\ At(p, "q_dates")
    /\ \E ok \in Outcomes(env), content \in env.dates, now \in Later(p, env) :
        /\ Counted(ok)
        /\ LET dateStrings == extractDateStrings(proc[p].todayString, content, now) IN
           IF ~ok THEN Rejected(p, UPSTREAM_ERROR, "openai.dates")
           ELSE IF content.kind = "null" THEN Rejected(p, TYPE_ERROR, "openai.dates")
           ELSE Goto(p, "q_fetch", [selectionText |-> Idle.selectionText,
                                    relevanceText |-> Idle.relevanceText,
                                    messages |-> <<>>,
                                    clock |-> now,
                                    responseText |-> content,
                                    dateStrings |-> dateStrings,
                                    range |-> convertToUnixTimestamps(dateStrings),
                                    calls |-> Called(p, "openai.dates")])
    /\ UNCHANGED <<kvThreads, kvCurrent, zepUsers, zepThreads, uuids, createdLog>>

\* index.ts:85-98: the result of one channel is pushed and the loop goes on
\* to the next channel's search (index.ts:301), or leaves for the synthesis
Pushed(p, found, name, changes, now) ==
    LET channel == proc[p].relevantChannels[proc[p].searched + 1] IN
    Goto(p, LoopNext(proc[p].relevantChannels, proc[p].searched + 1),
         changes @@
         [searched |-> proc[p].searched + 1,
          searchResults |-> Append(proc[p].searchResults, SearchResult(channel, found)),
          clock |-> now,
          todayString |-> getTodayDateString(now),
          calls |-> Called(p, name)])

\* mutant: an empty history is ranked, too
NoMessages_Never(messages) ==
    FALSE

\* index.ts:338
NoMessages(messages) ==
    Len(messages) = 0

\* index.ts:319: the fetch is asked for `limit` messages at most
WithinLimit(historyResponse, limit) ==
    limit.nan \/ Len(historyResponse.items) <= limit.v

\* index.ts:311-340: the history fetch, and the return when it is empty
QueryFetch(p, env) ==
    /\ At(p, "q_fetch")
    /\ \E ok \in Outcomes(env), historyResponse \in env.histories, now \in Later(p, env) :
        /\ WithinLimit(historyResponse, proc[p].range.limit)
        /\ Counted(ok)
        /\ LET rawMessages == OrEmptyList(historyResponse)
               messages == [i \in 1..Len(rawMessages) |-> Normalized(rawMessages[i])]
           IN
           IF ~ok THEN Rejected(p, UPSTREAM_ERROR, "composio.SLACK_FETCH_CONVERSATION_HISTORY")
           ELSE IF NoMessages(messages)
                THEN Pushed(p, <<>>, "composio.SLACK_FETCH_CONVERSATION_HISTORY",
                            [messages |-> messages], now)
           ELSE Goto(p, "q_rank", [messages |-> messages,
                                   calls |-> Called(p, "composio.SLACK_FETCH_CONVERSATION_HISTORY")])
    /\ UNCHANGED <<kvThreads, kvCurrent, zepUsers, zepThreads, uuids, createdLog>>

\* index.ts:343-393: the relevance model call and the messages it keeps
QueryRank(p, env) ==
    /\ At(p, "q_rank")
    /\ \E ok \in Outcomes(env), content \in env.relevances, now \in Later(p, env) :
        /\ Counted(ok)
        /\ IF ~ok THEN Rejected(p, UPSTREAM_ERROR, "openai.relevance")
           ELSE Pushed(p, RelevantMessages(proc[p].messages, content), "openai.relevance",
                       [relevanceText |-> content], now)
    /\ UNCHANGED <<kvThreads, kvCurrent, zepUsers, zepThreads, uuids, createdLog>>

\* index.ts:101-154: the synthesis; storeMemory runs to its kv.get.  The
\* locals of the last channel's search are gone by now.
QuerySynthesis(p, env) ==
    /\ At(p, "q_synthesis")
    /\ \E ok \in Outcomes(env), content \in env.syntheses :
        /\ Counted(ok)
        /\ IF ~ok THEN Rejected(p, UPSTREAM_ERROR, "openai.synthesis")
           ELSE Goto(p, "q_storeKv", [selectionText |-> Idle.selectionText,
                                      relevanceText |-> Idle.relevanceText,
                                      messages |-> <<>>,
                                      finalResponse |-> FinalResponse(content),
                                      calls |-> Called(p, "openai.synthesis")])
    /\ UNCHANGED <<kvThreads, kvCurrent, zepUsers, zepThreads, uuids, createdLog>>

\* memory.ts:44-49 (storeMemory)
QueryStoreKv(p, env) ==
    /\ At(p, "q_storeKv")
    /\ \E ok \in Outcomes(env) : Counted(ok) /\ CurrentThreadStep(p, ok, "q_storeZep")
    /\ UNCHANGED <<kvThreads, kvCurrent, zepUsers, zepThreads, uuids, createdLog>>

\* index.ts:154-156: what Agent does once storeMemory has settled
AfterStore(p, stored) ==
    IF stored THEN Responds(proc[p].finalResponse) ELSE Throws(UPSTREAM_ERROR)

\* memory.ts:52-65 (storeMemory) and index.ts:156
QueryStoreZep(p, env) ==
    /\ At(p, "q_storeZep")
    /\ \E ok \in Outcomes(env) :
        /\ Counted(ok)
        /\ Settle(p, AfterStore(p, ok), "zep.thread.addMessages")
    /\ UNCHANGED <<kvThreads, kvCurrent, zepUsers, zepThreads, uuids, createdLog>>

(***************************************************************************)
(* The handler has settled; its slot serves the next request.              *)
(***************************************************************************)
Finish(p) ==
    /\ At(p, "done")
    /\ proc' = [proc EXCEPT ![p] = Idle]
    /\ UNCHANGED <<kvThreads, kvCurrent, zepUsers, zepThreads, uuids>>
    /\ UNCHANGED <<failures, createdLog, ingress>>

(***************************************************************************)
(* The specifications.                                                     *)
(***************************************************************************)
CommandStep(p, env) ==
    \/ ReceiveAnswered(p, env)
    \/ ReceiveCreate(p, env)
    \/ ReceiveList(p, env)
    \/ ReceiveSwitch(p, env)
    \/ CreateUserGet(p, env)
    \/ CreateUserAdd(p, env)
    \/ CreateZepThread(p, env)
    \/ CreateKvGet(p, env)
    \/ CreateKvSetThreads(p, env)
    \/ CreateKvSetCurrent(p, env)
    \/ ListThreads(p, env)
    \/ SwitchKvGet(p, env)
    \/ SwitchKvSet(p, env)
    \/ Finish(p)

QueryStep(p, env) ==
    \/ ReceiveQuery(p, env)
    \/ QueryContextKv(p, env)
    \/ QueryContextZep(p, env)
    \/ QueryHistoryKv(p, env)
    \/ QueryHistoryZep(p, env)
    \/ QueryInstructions(p, env)
    \/ QueryListChannels(p, env)
    \/ QuerySelect(p, env)
    \/ QueryDates(p, env)
    \/ QueryFetch(p, env)
    \/ QueryRank(p, env)
    \/ QuerySynthesis(p, env)
    \/ QueryStoreKv(p, env)
    \/ QueryStoreZep(p, env)

\* what the requests and the external services can be, one at a time
Sequential ==
    [userIds |-> UserIdInputs, queries |-> Queries, outcomes |-> BOOLEAN,
     directories |-> Directories, selections |-> SelectionContents,
     histories |-> Histories, relevances |-> RelevanceContents,
     syntheses |-> SynthesisContents, dates |-> DateContents, clocks |-> Clocks]

\* the same for overlapping requests: one user, services that answer
Concurrent ==
    [userIds |-> {"U1"}, queries |-> ConcurrentQueries, outcomes |-> {TRUE},
     directories |-> {Data(<<Channel(1)>>)},
     selections |-> {[kind |-> "invalid", items |-> <<>>]},
     histories |-> {Data(<<Message(0)>>)},
     relevances |-> {[kind |-> "array", items |-> <<Index(0)>>]},
     syntheses |-> {ANSWER_TEXT}, dates |-> DateContents, clocks |-> Clocks]

\* requests handled concurrently
Next ==
    \E p \in Procs : CommandStep(p, Concurrent) \/ QueryStep(p, Concurrent)

Spec ==
    Init /\ [][Next]_vars

\* requests handled one at a time
NextSeq ==
    CommandStep("p1", Sequential) \/ QueryStep("p1", Sequential)

SpecSeq ==
    Init /\ [][NextSeq]_vars

(***************************************************************************)
(* handleCommand's parse alone, on every `~thread` command of up to        *)
(* MaxTokens tokens: the text it returns, or the operation it selects.     *)
(***************************************************************************)
\* `~thread` followed by the tokens, each preceded by the separator
CommandOf(toks, sep) ==
    CMD_THREAD \o JoinTokens(toks, sep)

Separators ==
    {<<" ">>, <<" ", "\t">>}

ParserInputs ==
    {CommandOf(toks, sep) : toks \in TokenLists, sep \in Separators}

InitParse ==
    /\ ingress = IngressIdle
    /\ kvThreads = [u \in Users |-> Absent]
    /\ kvCurrent = [u \in Users |-> Absent]
    /\ zepUsers = {}
    /\ zepThreads = {}
    /\ uuids = 0
    /\ failures = 0
    /\ createdLog = [u \in Users |-> [ids |-> <<>>, failed |-> FALSE]]
    /\ \E q \in ParserInputs :
        proc = [p \in Procs |-> IF p = "p1"
                                THEN [f \in DOMAIN Idle |->
                                        IF f = "pc" THEN "received"
                                        ELSE IF f = "userId" THEN "U1"
                                        ELSE IF f = "userQuery" THEN q
                                        ELSE Idle[f]]
                                ELSE Idle]

\* threads.ts:14-83 up to the first await
ParseCommand(p) ==
    /\ At(p, "received")
    /\ LET parsed == handleCommand(proc[p].userQuery) IN
        IF parsed.kind = "return"
        THEN Goto(p, "done", [result |-> Responds(parsed.text)])
        ELSE Goto(p, "dispatched", [operation |-> OperationOf(parsed.flag), idArg |-> parsed.idArg])
    /\ UNCHANGED <<kvThreads, kvCurrent, zepUsers, zepThreads, uuids, failures, createdLog>>

NextParse ==
    ParseCommand("p1")

SpecParse ==
    InitParse /\ [][NextParse]_vars

(***************************************************************************)
(* One user's queries alone, with all that the directory, the histories    *)
(* and the models can answer.  The user has a thread, as after a first     *)
(* `~thread -c`.                                                           *)
(***************************************************************************)
Pipeline ==
    [userIds |-> {"U1"}, queries |-> {QUERY_TEXT}, outcomes |-> BOOLEAN,
     directories |-> PipelineDirectories, selections |-> PipelineSelections,
     histories |-> PipelineHistories, relevances |-> PipelineRelevances,
     syntheses |-> {ANSWER_TEXT}, dates |-> DateContents, clocks |-> Clocks]

\* the state after U1's first `~thread -c`, all handlers idle
InitPipe ==
    /\ ingress = IngressIdle
    /\ kvThreads = [u \in Users |-> IF u = "U1" THEN Present(<<uuid(1)>>) ELSE Absent]
    /\ kvCurrent = [u \in Users |-> IF u = "U1" THEN Present(uuid(1)) ELSE Absent]
    /\ zepUsers = {"U1"}
    /\ zepThreads = {[threadId |-> uuid(1), userId |-> "U1"]}
    /\ uuids = 1
    /\ failures = 0
    /\ createdLog = [u \in Users |-> [ids |-> IF u = "U1" THEN <<uuid(1)>> ELSE <<>>,
                                      failed |-> FALSE]]
    /\ proc = [p \in Procs |-> Idle]

NextPipe ==
    QueryStep("p1", Pipeline) \/ Finish("p1")

SpecPipe ==
    InitPipe /\ [][NextPipe]_vars

(***************************************************************************)
(* The date range of one channel search alone (index.ts:301-304), on every *)
(* answer of the date-range model and with the clock running on while the  *)
(* model is awaited.                                                       *)
(***************************************************************************)
At0615 ==
    DaysFromCivil(2024, 6, 15) * SECONDS_PER_DAY

\* 03/15/2024 12:00:00, 06/15/2024 12:00:00 and 23:59:50, 06/16/2024
\* 00:00:10, 01/10/2025 08:00:00
DateClocks ==
    {DaysFromCivil(2024, 3, 15) * SECONDS_PER_DAY + 12 * 60 * 60,
     NOON,
     At0615 + SECONDS_PER_DAY - 10,
     At0615 + SECONDS_PER_DAY + 10,
     DaysFromCivil(2025, 1, 10) * SECONDS_PER_DAY + 8 * 60 * 60}

NOT_A_DATE ==
    <<"s","o","o","n">>

\* the date-range model's answers: none, no JSON, JSON that is no object,
\* and objects with a week, a day, twenty days, a year, a range that ends
\* before it starts, a start that is no date, and no start at all
DateAnswers ==
    {DateContent("empty"), DateContent("invalid"), DateContent("null"), DateContent("scalar"),
     DateRange(FormatDate(At0615 - 7 * SECONDS_PER_DAY), FormatDate(At0615)),
     DateRange(FormatDate(At0615), FormatDate(At0615)),
     DateRange(FormatDate(At0615 - 20 * SECONDS_PER_DAY), FormatDate(At0615)),
     DateRange(FormatDate(At0615 - 365 * SECONDS_PER_DAY), FormatDate(At0615)),
     DateRange(FormatDate(At0615), FormatDate(At0615 - 7 * SECONDS_PER_DAY)),
     DateRange(NOT_A_DATE, FormatDate(At0615)),
     DateRange(UNDEFINED, FormatDate(At0615))}

Dates ==
    [userIds |-> {"U1"}, queries |-> {QUERY_TEXT}, outcomes |-> {TRUE},
     directories |-> {Data(<<Channel(1)>>)},
     selections |-> {[kind |-> "array", items |-> <<Channel(1)>>]},
     histories |-> {Data(<<Message(0)>>)},
     relevances |-> {[kind |-> "array", items |-> <<Index(0)>>]},
     syntheses |-> {ANSWER_TEXT}, dates |-> DateAnswers, clocks |-> DateClocks]

\* the request record of a query that has selected its one channel and has
\* read the clock for the search of it (index.ts:301)
SearchStarted(now) ==
    [f \in DOMAIN Idle |->
        IF f = "pc" THEN "q_dates"
        ELSE IF f = "userId" THEN "U1"
        ELSE IF f = "userQuery" THEN QUERY_TEXT
        ELSE IF f = "threadId" THEN uuid(1)
        ELSE IF f = "threadIds" THEN <<uuid(1), uuid(1)>>
        ELSE IF f = "allChannels" THEN <<Channel(1)>>
        ELSE IF f = "selectionText" THEN [kind |-> "array", items |-> <<Channel(1)>>]
        ELSE IF f = "relevantChannels" THEN <<Descriptor(Channel(1))>>
        ELSE IF f = "clock" THEN now
        ELSE IF f = "todayString" THEN getTodayDateString(now)
        ELSE IF f = "calls" THEN <<"kv.get", "zep.thread.getUserContext", "kv.get",
                                   "zep.thread.get", "openai.instructions",
                                   "composio.SLACK_LIST_ALL_CHANNELS", "openai.selection">>
        ELSE Idle[f]]

InitDates ==
    /\ ingress = IngressIdle
    /\ kvThreads = [u \in Users |-> IF u = "U1" THEN Present(<<uuid(1)>>) ELSE Absent]
    /\ kvCurrent = [u \in Users |-> IF u = "U1" THEN Present(uuid(1)) ELSE Absent]
    /\ zepUsers = {"U1"}
    /\ zepThreads = {[threadId |-> uuid(1), userId |-> "U1"]}
    /\ uuids = 1
    /\ failures = 0
    /\ createdLog = [u \in Users |-> [ids |-> IF u = "U1" THEN <<uuid(1)>> ELSE <<>>,
                                      failed |-> FALSE]]
    /\ \E now \in DateClocks :
        proc = [p \in Procs |-> IF p = "p1" THEN SearchStarted(now) ELSE Idle]

NextDates ==
    QueryDates("p1", Dates)

SpecDates ==
    InitDates /\ [][NextDates]_vars

(***************************************************************************)
(* The search of one channel alone (index.ts:294-394), on histories of up  *)
(* to PROMPT_LIMIT + 1 messages and on every array of up to MaxEntries     *)
(* entries the relevance model can answer with.                            *)
(***************************************************************************)
\* the most entries of a relevance answer here
MaxEntries ==
    2

\* the n newest messages of a channel
Messages(n) ==
    [i \in 1..n |-> Message(i - 1)]

SearchHistories ==
    {NoData} \cup {Data(Messages(n)) : n \in {0, 1, 2, 3, PROMPT_LIMIT + 1}}

\* the entries of the answers: integers below, in and above the range,
\* around PROMPT_LIMIT, a number that is no integer, and null
IndexEntries ==
    {Index(-1), Index(0), Index(1), Index(2),
     Index(PROMPT_LIMIT - 1), Index(PROMPT_LIMIT), Index(PROMPT_LIMIT + 1),
     HalfIndex(0), JSON_NULL}

SearchRelevances ==
    {[kind |-> k, items |-> <<>>] : k \in {"empty", "invalid", "scalar"}}
        \cup {[kind |-> "array", items |-> a] :
                a \in UNION {[1..n -> IndexEntries] : n \in 0..MaxEntries}}

\* a range of twenty days, for which up to 100 messages are fetched
SearchDates ==
    {DateRange(FormatDate(NOON - 20 * SECONDS_PER_DAY), FormatDate(NOON))}

Search ==
    [userIds |-> {"U1"}, queries |-> {QUERY_TEXT}, outcomes |-> {TRUE},
     directories |-> {Data(<<Channel(1)>>)},
     selections |-> {[kind |-> "array", items |-> <<Channel(1)>>]},
     histories |-> SearchHistories, relevances |-> SearchRelevances,
     syntheses |-> {ANSWER_TEXT}, dates |-> SearchDates, clocks |-> Clocks]

\* a query of U1 has selected its one channel and starts the search of it
InitSearch ==
    /\ ingress = IngressIdle
    /\ kvThreads = [u \in Users |-> IF u = "U1" THEN Present(<<uuid(1)>>) ELSE Absent]
    /\ kvCurrent = [u \in Users |-> IF u = "U1" THEN Present(uuid(1)) ELSE Absent]
    /\ zepUsers = {"U1"}
    /\ zepThreads = {[threadId |-> uuid(1), userId |-> "U1"]}
    /\ uuids = 1
    /\ failures = 0
    /\ createdLog = [u \in Users |-> [ids |-> IF u = "U1" THEN <<uuid(1)>> ELSE <<>>,
                                      failed |-> FALSE]]
    /\ proc = [p \in Procs |-> IF p = "p1" THEN SearchStarted(NOON) ELSE Idle]

NextSearch ==
    \/ QueryDates("p1", Search)
    \/ QueryFetch("p1", Search)
    \/ QueryRank("p1", Search)

SpecSearch ==
    InitSearch /\ [][NextSearch]_vars

(***************************************************************************)
(* The ingress adapter, slackbot/index.ts:4-46.  The event is worked on in *)
(* an async function that the handler calls and does not await: it runs up *)
(* to its first await, then the handler returns its response, and the rest *)
(* of the work goes on by itself.                                          *)
(***************************************************************************)
\* slackbot/index.ts:44
TXT_SUCCESS ==
    <<"S","u","c","c","e","s","s",".">>

\* the place of the first `>` of s at or after place i, 0 if there is none
RECURSIVE FirstClosing(_, _)
FirstClosing(s, i) ==
    IF i > Len(s) THEN 0
    ELSE IF s[i] = ">" THEN i
    ELSE FirstClosing(s, i + 1)

\* slackbot/index.ts:18, replace(/<@[^>]+>/g, ""): every `<@`, one or more
\* characters other than `>`, and `>` is taken out
RECURSIVE RemoveMentions(_)
RemoveMentions(s) ==
    IF s = <<>> THEN <<>>
    ELSE LET closing == IF Len(s) >= 2 /\ s[1] = "<" /\ s[2] = "@"
                        THEN FirstClosing(s, 3)
                        ELSE 0
         IN  IF closing >= 4
             THEN RemoveMentions(SubSeq(s, closing + 1, Len(s)))
             ELSE <<Head(s)>> \o RemoveMentions(Tail(s))

\* an event of the workspace: of user U1, in channel C1
Event(type, text) ==
    [type |-> type, text |-> text, user |-> "U1", channel |-> "C1", ts |-> "1718452800.000100"]

MENTION ==
    <<"<","@","B","1",">">>

CHALLENGE ==
    <<"t","o","k","e","n">>

\* the texts of the events: commands and a query, with the mention of the
\* bot before or after them
EventTexts ==
    {MENTION \o <<" ">> \o CMD_THREAD \o <<" ", "-", "c">>,
     MENTION \o <<" ">> \o QUERY_TEXT,
     QUERY_TEXT \o <<" ">> \o MENTION}

\* the payloads: with and without a challenge; with no event, with an event
\* that is no mention, and with a mention
Payloads ==
    {Payload(c, e) : c \in {<<>>, CHALLENGE},
                     e \in {NoEvent, Event("message", QUERY_TEXT)}
                            \cup {Event("app_mention", t) : t \in EventTexts}}

\* slackbot/index.ts:41-45
ResponseTo(payload) ==
    IF payload.challenge # <<>> THEN Responds(payload.challenge) ELSE Responds(TXT_SUCCESS)

\* mutant: the handler awaits the work before it returns
Returned_Awaited(payload, work) ==
    IF work = "none" THEN ResponseTo(payload) ELSE NoResult

\* slackbot/index.ts:14, 38 and 41-45: what the handler has returned when
\* the work it has called stands at its first await
Returned(payload, work) ==
    ResponseTo(payload)

\* slackbot/index.ts:9-45: the payload is read, the work on the event runs
\* up to ctx.getAgent, and the handler returns
IngressReceive(payload) ==
    /\ ingress.pc = "idle"
    /\ LET mention == payload.event.type = "app_mention"
           work == IF mention THEN "getAgent" ELSE "none"
       IN  ingress' = [ingress EXCEPT
                !.pc = "responded",
                !.payload = payload,
                !.work = work,
                !.userQuery = IF mention THEN Trim(RemoveMentions(payload.event.text)) ELSE <<>>,
                !.userId = IF mention THEN payload.event.user ELSE "",
                !.channel = IF mention THEN payload.event.channel ELSE "",
                !.messageTs = IF mention THEN payload.event.ts ELSE "",
                !.response = Returned(payload, work)]
    /\ UNCHANGED <<kvThreads, kvCurrent, zepUsers, zepThreads, uuids>>
    /\ UNCHANGED <<failures, createdLog, proc>>

\* the work of the ingress adapter goes on to its next await
IngressGoto(work, name, changes) ==
    ingress' = [f \in DOMAIN ingress |->
                    IF f = "work" THEN work
                    ELSE IF f = "calls" THEN Append(ingress.calls, name)
                    ELSE IF f \in DOMAIN changes THEN changes[f]
                    ELSE ingress[f]]

\* what the requests of the ingress adapter and the external services can
\* be: the request the event was turned into (slackbot/index.ts:25)
Dispatched ==
    [userIds |-> {ingress.userId}, queries |-> {ingress.userQuery}, outcomes |-> BOOLEAN,
     directories |-> {Data(<<Channel(1)>>)},
     selections |-> {[kind |-> "invalid", items |-> <<>>]},
     histories |-> {Data(<<Message(0)>>)},
     relevances |-> {[kind |-> "array", items |-> <<Index(0)>>]},
     syntheses |-> {ANSWER_TEXT}, dates |-> DateContents, clocks |-> Clocks]

\* slackbot/index.ts:24: ctx.getAgent; a throw rejects the work, which
\* nobody awaits
IngressGetAgent ==
    /\ ingress.work = "getAgent"
    /\ \E ok \in Outcomes(Dispatched) :
        /\ Counted(ok)
        /\ IngressGoto(IF ok THEN "run" ELSE "rejected", "ctx.getAgent", <<>>)
    /\ UNCHANGED <<kvThreads, kvCurrent, zepUsers, zepThreads, uuids, createdLog, proc>>

\* slackbot/index.ts:25: queryAgent.run, the handler of the query agent
\* serving the request
IngressRun ==
    /\ ingress.work = "run"
    /\ ~At("p1", "done")
    /\ CommandStep("p1", Dispatched) \/ QueryStep("p1", Dispatched)

\* slackbot/index.ts:25: queryAgent.run settles as the query agent has
\* settled: with its text, or with a throw that rejects the work
IngressRunSettled ==
    /\ ingress.work = "run"
    /\ At("p1", "done")
    /\ IngressGoto(IF proc["p1"].result.kind = "text" THEN "post" ELSE "rejected",
                   "queryAgent.run", [result |-> proc["p1"].result])
    /\ proc' = [proc EXCEPT !["p1"] = Idle]
    /\ UNCHANGED <<kvThreads, kvCurrent, zepUsers, zepThreads, uuids>>
    /\ UNCHANGED <<failures, createdLog>>

\* mutant: a post that fails is tried again
AfterPost_Retry(ok) ==
    IF ok THEN "done" ELSE "post"

\* slackbot/index.ts:28-37: after the try/catch the work is over
AfterPost(ok) ==
    "done"

\* slackbot/index.ts:29-33: the arguments of chat.postMessage
PostArguments ==
    [channel |-> ingress.channel, thread_ts |-> ingress.messageTs, text |-> ingress.result.text]

\* slackbot/index.ts:28-36: the post, and the log of the error if it throws
IngressPost ==
    /\ ingress.work = "post"
    /\ \E ok \in Outcomes(Dispatched) :
        /\ Counted(ok)
        /\ IngressGoto(AfterPost(ok), "slack.chat.postMessage",
                       [posts |-> Append(ingress.posts, PostArguments),
                        errors |-> ingress.errors + (IF ok THEN 0 ELSE 1)])
    /\ UNCHANGED <<kvThreads, kvCurrent, zepUsers, zepThreads, uuids, createdLog, proc>>

\* the response was sent and the work is over; the next request can come
IngressFinish ==
    /\ ingress.pc = "responded"
    /\ ingress.work \in {"none", "done", "rejected"}
    /\ ingress' = IngressIdle
    /\ UNCHANGED <<kvThreads, kvCurrent, zepUsers, zepThreads, uuids>>
    /\ UNCHANGED <<failures, createdLog, proc>>

NextIngress ==
    \/ \E payload \in Payloads : IngressReceive(payload)
    \/ IngressGetAgent
    \/ IngressRun
    \/ IngressRunSettled
    \/ IngressPost
    \/ IngressFinish

SpecIngress ==
    Init /\ [][NextIngress]_vars

(***************************************************************************)
(* The claims.                                                             *)
(***************************************************************************)
Elems(list) ==
    {list[i] : i \in 1..Len(list)}

IsQuery(p) ==
    /\ proc[p].pc # "idle"
    /\ ~IsCommand(proc[p].userQuery)

Settled(p) ==
    proc[p].pc = "done"

\* the answer was synthesized: FinalResponse is never the empty text
Synthesized(p) ==
    proc[p].finalResponse # <<>>

\* C1: once the answer of a query has been synthesized, the caller receives
\* that answer as the response, also when storeMemory throws afterwards.
C1_AnswerSurvivesStoreFailure ==
    \A p \in Procs :
        (Settled(p) /\ IsQuery(p) /\ Synthesized(p))
            => proc[p].result = Responds(proc[p].finalResponse)

\* C2: a query that has settled has reached the instruction rewriting,
\* whatever getMemoryContext and getThreadHistory met (no current thread,
\* or a service error).
C2_RetrievalFailureDegrades ==
    \A p \in Procs :
        (Settled(p) /\ IsQuery(p)) => "openai.instructions" \in Elems(proc[p].calls)

\* the handler of p settles in this step
Settles(p) ==
    /\ proc[p].pc # "done"
    /\ proc'[p].pc = "done"

\* `~thread` with nothing but white space after it
BareThreadCommand(q) ==
    /\ Len(q) >= Len(CMD_THREAD)
    /\ SubSeq(q, 1, Len(CMD_THREAD)) = CMD_THREAD
    /\ \A i \in (Len(CMD_THREAD) + 1)..Len(q) : q[i] \in {" ", "\t", "\n"}

\* C3: `~thread` with nothing (or only white space) after it is answered
\* with the usage text, and the step changes no persisted state.
C3_BareThreadGivesUsage ==
    [][\A p \in Procs :
        (Settles(p) /\ BareThreadCommand(proc'[p].userQuery))
            => /\ proc'[p].result \in {Responds(TXT_USAGE_THREAD), Responds(TXT_USAGE_HELP)}
               /\ UNCHANGED <<kvThreads, kvCurrent>>]_vars

\* the switch command of p is in progress
Switching(p) ==
    proc[p].pc \in {"s_kvGet", "s_kvSet"}

NotFoundText(id) ==
    TXT_THREAD_PRE \o id \o TXT_NOT_FOUND_POST

\* C4 as claimed: a `~thread -s <id>` that meets no key-value error answers
\* `Switched to thread: <id>` and sets the pointer if <id> is in the user's
\* list, and for every other <id>, also when the user has no list at all,
\* answers `Thread <id> not found in your threads.` and changes nothing.
C4_SwitchAsClaimed ==
    [][\A p \in Procs :
        (Switching(p) /\ Settles(p) /\ proc'[p].result.text # TXT_ERROR_SWITCHING)
            => LET u == proc[p].userId
                   id == proc[p].idArg
               IN  IF kvThreads[u].exists /\ id \in Elems(kvThreads[u].data)
                   THEN /\ proc'[p].result = Responds(TXT_SWITCHED_PRE \o id)
                        /\ kvCurrent'[u] = Present(id)
                        /\ UNCHANGED kvThreads
                   ELSE /\ proc'[p].result = Responds(NotFoundText(id))
                        /\ UNCHANGED <<kvThreads, kvCurrent>>]_vars

\* C4 as amended: the same, except that a user with no thread list at all is
\* answered `No threads found. Create a thread first with /thread -c`, and a
\* key-value error is answered `Error switching threads`; the thread list
\* never changes, and the pointer changes only on `Switched to thread`.
C4_Switch ==
    [][\A p \in Procs :
        Switching(p)
            => LET u == proc[p].userId
                   id == proc[p].idArg
               IN  /\ UNCHANGED kvThreads
                   /\ ~Settles(p) => UNCHANGED kvCurrent
                   /\ Settles(p) =>
                        \/ /\ proc'[p].result = Responds(TXT_ERROR_SWITCHING)
                           /\ UNCHANGED kvCurrent
                        \/ /\ kvThreads[u].exists
                           /\ id \in Elems(kvThreads[u].data)
                           /\ proc'[p].result = Responds(TXT_SWITCHED_PRE \o id)
                           /\ kvCurrent' = [kvCurrent EXCEPT ![u] = Present(id)]
                        \/ /\ kvThreads[u].exists
                           /\ id \notin Elems(kvThreads[u].data)
                           /\ proc'[p].result = Responds(NotFoundText(id))
                           /\ UNCHANGED kvCurrent
                        \/ /\ ~kvThreads[u].exists
                           /\ proc'[p].result = Responds(TXT_NO_THREADS_SWITCH)
                           /\ UNCHANGED kvCurrent]_vars

\* C4 witness: a switch away from the newest thread has been confirmed, and
\* another handler slot is free
C4_Witness ==
    \E p \in Procs :
        /\ Settled(p)
        /\ proc[p].result = Responds(TXT_SWITCHED_PRE \o proc[p].idArg)
        /\ kvCurrent[proc[p].userId] = Present(proc[p].idArg)
        /\ Len(kvThreads[proc[p].userId].data) >= 2
        /\ kvThreads[proc[p].userId].data[1] # proc[p].idArg

\* C5: a user's current-thread pointer, if set, references a thread id that
\* is in that user's persisted thread list, in every reachable state, also
\* when commands of the same user overlap.
C5_CurrentIsListed ==
    \A u \in Users :
        kvCurrent[u].exists
            => /\ kvThreads[u].exists
               /\ kvCurrent[u].data \in Elems(kvThreads[u].data)

LastOf(list) ==
    list[Len(list)]

\* the selection model call of p's query has returned, with no channel
SelectionReturnedEmpty(p) ==
    /\ IsQuery(p)
    /\ "openai.selection" \in Elems(proc[p].calls)
    /\ ~(LastOf(proc[p].calls) = "openai.selection" /\ proc[p].result.kind = "throw")
    /\ proc[p].relevantChannels = <<>>

\* C6: when the channel selection returns an empty list, the response is
\* exactly `No relevant channels found for your query.` and the selection
\* is the last external call of the request: no history fetch, no date or
\* relevance or synthesis model call, no memory write-back.
C6_NoChannelsShortCircuit ==
    \A p \in Procs :
        SelectionReturnedEmpty(p)
            => /\ Settled(p)
               /\ proc[p].result = Responds(TXT_NO_CHANNELS)
               /\ LastOf(proc[p].calls) = "openai.selection"

\* C6 witness: a query whose selection was an empty JSON array has settled
C6_Witness ==
    \E p \in Procs : SelectionReturnedEmpty(p) /\ Settled(p)

\* the text begins with `~`
BeginsWithSentinel(q) ==
    /\ q # <<>>
    /\ q[1] = "~"

\* the external calls of the query pipeline
PipelineCalls ==
    {"zep.thread.getUserContext", "zep.thread.get", "zep.thread.addMessages",
     "openai.instructions", "openai.selection", "openai.dates", "openai.relevance",
     "openai.synthesis", "composio.SLACK_LIST_ALL_CHANNELS",
     "composio.SLACK_FETCH_CONVERSATION_HISTORY"}

\* C7: a request whose text begins with `~` issues no memory retrieval, model
\* call, channel listing, history fetch or memory write-back; it settles with
\* a text, never a throw, and when handleCommand answers without a thread
\* operation that text is handleCommand's.
C7_CommandsBypassPipeline ==
    \A p \in Procs :
        (proc[p].pc # "idle" /\ BeginsWithSentinel(proc[p].userQuery))
            => /\ Elems(proc[p].calls) \cap PipelineCalls = {}
               /\ Settled(p) => proc[p].result.kind = "text"
               /\ (Settled(p) /\ handleCommand(proc[p].userQuery).kind = "return")
                    => proc[p].result.text = handleCommand(proc[p].userQuery).text

\* C7 witness: a `~thread -c` has run its thread operation and settled with
\* the confirmation createThread returned
C7_Witness ==
    \E p \in Procs :
        /\ Settled(p)
        /\ BeginsWithSentinel(proc[p].userQuery)
        /\ "zep.thread.create" \in Elems(proc[p].calls)
        /\ proc[p].result = Responds(TXT_CREATED_PRE \o proc[p].threadId)

\* `~thread -c`, as the request text
CreateCommand ==
    CMD_THREAD \o <<" ", "-", "c">>

\* the entries of u's persisted thread list, none when the key was never set
ListOf(kv, u) ==
    IF kv[u].exists THEN kv[u].data ELSE <<>>

\* the handler of p confirms a creation in this step
ConfirmsCreation(p) ==
    /\ Settles(p)
    /\ proc'[p].userQuery = CreateCommand
    /\ proc'[p].result.kind = "text"
    /\ proc'[p].result.text # TXT_ERROR_CREATING

\* C8: a `~thread -c` by user u is given an id that is not in u's list; when
\* it writes the list, the id is at the front and the earlier entries follow
\* in their order; when it succeeds, the list still is that one, u's current
\* thread is the id, and the response is `Created thread: <id>` with that id.
C8_CreatePrepends ==
    [][\A p \in Procs :
        /\ (proc[p].pc = "idle" /\ proc'[p].userQuery = CreateCommand /\ proc'[p].pc # "done")
            => /\ proc'[p].threadId # <<>>
               /\ proc'[p].threadId \notin Elems(ListOf(kvThreads, proc'[p].userId))
        /\ (proc[p].userQuery = CreateCommand /\ proc[p].pc # "done")
            => LET u == proc[p].userId
                   id == proc[p].threadId
               IN  /\ proc'[p].threadId = id
                   /\ kvThreads'[u] # kvThreads[u]
                        => /\ kvThreads'[u].exists
                           /\ kvThreads'[u].data = <<id>> \o ListOf(kvThreads, u)
                           /\ id \notin Elems(ListOf(kvThreads, u))
                   /\ ConfirmsCreation(p)
                        => /\ proc'[p].result.text = TXT_CREATED_PRE \o id
                           /\ "zep.thread.create" \in Elems(proc'[p].calls)
                           /\ kvThreads'[u] = kvThreads[u]
                           /\ ListOf(kvThreads', u) # <<>>
                           /\ Head(ListOf(kvThreads', u)) = id
                           /\ kvCurrent'[u].exists
                           /\ kvCurrent'[u].data = id]_vars

\* C8 witness: a `~thread -c` was confirmed for a user who had threads before;
\* the new id heads the list and is the current thread
C8_Witness ==
    \E p \in Procs :
        /\ Settled(p)
        /\ proc[p].userQuery = CreateCommand
        /\ proc[p].result = Responds(TXT_CREATED_PRE \o proc[p].threadId)
        /\ Len(ListOf(kvThreads, proc[p].userId)) >= 2
        /\ Head(ListOf(kvThreads, proc[p].userId)) = proc[p].threadId
        /\ kvCurrent[proc[p].userId].exists
        /\ kvCurrent[proc[p].userId].data = proc[p].threadId

\* `~thread -l`, as the request text
ListCommand ==
    CMD_THREAD \o <<" ", "-", "l">>

\* the lines `i. <id>\n` for the entries k, k + 1, ... of ids
RECURSIVE ExpectedLines(_, _)
ExpectedLines(ids, k) ==
    IF k > Len(ids) THEN <<>>
    ELSE NumberToString(k) \o <<".", " ">> \o ids[k] \o <<"\n">> \o ExpectedLines(ids, k + 1)

\* what `~thread -l` is to return after the creations confirmed as ids,
\* newest first
ExpectedListing(ids) ==
    IF Len(ids) = 0 THEN <<"N","o"," ","t","h","r","e","a","d","s"," ","f","o","u","n","d",".">>
    ELSE <<"T","h","r","e","a","d","s",":","\n">> \o ExpectedLines(ids, 1)

\* the `~thread -l` of p has settled and its read of the list did not fail
Listed(p) ==
    /\ Settled(p)
    /\ proc[p].userQuery = ListCommand
    /\ proc[p].result # Responds(TXT_ERROR_LISTING)

\* C9: for a user who started with no threads and whose `~thread -c` commands
\* so far, run one at a time, all succeeded, `~thread -l` returns `Threads:\n`
\* and one line `i. <id>\n` per created thread, numbered from 1, newest
\* first; with no thread created it returns `No threads found.`.
C9_ListingAfterCreates ==
    \A p \in Procs :
        (Listed(p) /\ ~createdLog[proc[p].userId].failed)
            => proc[p].result = Responds(ExpectedListing(createdLog[proc[p].userId].ids))

\* C9 witness: a listing of two or more created threads
C9_Witness ==
    \E p \in Procs :
        /\ Listed(p)
        /\ ~createdLog[proc[p].userId].failed
        /\ Len(createdLog[proc[p].userId].ids) >= 2
        /\ proc[p].result.text[Len(TXT_THREADS_HEAD) + 1] = "1"

\* the white-space separated tokens of s
RECURSIVE WordsOf(_)
WordsOf(s) ==
    IF s = <<>> THEN <<>>
    ELSE IF s[1] \in {" ", "\t", "\n"} THEN WordsOf(Tail(s))
    ELSE LET n == CHOOSE k \in 1..Len(s) :
                    /\ \A j \in 1..k : s[j] \notin {" ", "\t", "\n"}
                    /\ k = Len(s) \/ s[k + 1] \in {" ", "\t", "\n"}
         IN  <<SubSeq(s, 1, n)>> \o WordsOf(SubSeq(s, n + 1, Len(s)))

IsDashToken(tok) ==
    tok[1] = "-"

\* no token the claim calls malformed / the response the first one determines
NoneMalformed ==
    [malformed |-> FALSE, text |-> <<>>]

Malformed(text) ==
    [malformed |-> TRUE, text |-> text]

\* the tokens i, i + 1, ... of toks, read left to right; accepted: a flag
\* was accepted before token i.  A lone `-` is none of the claim's cases.
RECURSIVE FirstMalformed(_, _, _)
FirstMalformed(toks, i, accepted) ==
    IF i > Len(toks) THEN NoneMalformed
    ELSE LET tok == toks[i] IN
         IF IsDashToken(tok) /\ accepted THEN Malformed(TXT_ONLY_ONE_FLAG)
         ELSE IF ~IsDashToken(tok) THEN Malformed(TXT_UNEXPECTED_PRE \o tok)
         ELSE IF Len(tok) > 2 THEN Malformed(TXT_MULTIPLE_FLAGS)
         ELSE IF Len(tok) < 2 THEN NoneMalformed
         ELSE IF tok[2] \notin {"c", "l", "s"}
              THEN Malformed(<<"I","n","v","a","l","i","d"," ","f","l","a","g",":"," ","-", tok[2]>>
                                \o TXT_INVALID_FLAG_POST)
         ELSE IF tok[2] # "s" THEN FirstMalformed(toks, i + 1, TRUE)
         ELSE IF i = Len(toks) THEN Malformed(TXT_S_REQUIRES_ID)
         ELSE IF IsDashToken(toks[i + 1]) THEN Malformed(TXT_ONLY_ONE_FLAG)
         ELSE FirstMalformed(toks, i + 2, TRUE)

\* the tokens after `~thread` in the request of p
TokensOf(p) ==
    WordsOf(SubSeq(proc[p].userQuery, Len(CMD_THREAD) + 1, Len(proc[p].userQuery)))

\* handleCommand is through with the text of p's request
Parsed(p) ==
    proc[p].pc \in {"done", "dispatched"}

\* C10: for `~thread` followed by tokens, the first malformed token decides
\* the response: a dash token after an accepted flag (the token after -s
\* included) gives `Only one flag per run is allowed.`; else `-x` with x not
\* c, l, s gives `Invalid flag: -x. Accepted flags are: -c, -l, -s`; a longer
\* dash token gives `Multiple flags in one dash not allowed. Use one flag per
\* dash.`; a token without dash that is not the id after -s gives
\* `Unexpected argument: <token>`; -s as the last token gives `Flag -s
\* requires an ID argument.`.
C10_FirstMalformedToken ==
    \A p \in Procs :
        (Parsed(p) /\ FirstMalformed(TokensOf(p), 1, FALSE).malformed)
            => /\ proc[p].pc = "done"
               /\ proc[p].result = Responds(FirstMalformed(TokensOf(p), 1, FALSE).text)

\* C10 witness: `~thread -s t1 -c` was answered `Only one flag per run is
\* allowed.`, its third token being the first malformed one
C10_Witness ==
    \E p \in Procs :
        /\ Parsed(p)
        /\ TokensOf(p) = <<<<"-", "s">>, <<"t", "1">>, <<"-", "c">>>>
        /\ proc[p].result = Responds(TXT_ONLY_ONE_FLAG)

\* the command text is one the claim speaks of: it begins with `~` and is
\* no `~thread` command, or a token after `~thread` is malformed
RefusedCommand(q) ==
    /\ BeginsWithSentinel(q)
    /\ \/ Len(q) < Len(CMD_THREAD)
       \/ SubSeq(q, 1, Len(CMD_THREAD)) # CMD_THREAD
       \/ FirstMalformed(WordsOf(SubSeq(q, Len(CMD_THREAD) + 1, Len(q))), 1, FALSE).malformed

\* C11: a `~` input that is answered with a parse error, the usage text or
\* `Invalid command.` is answered at once with a text: no thread operation
\* is started and no call is made, and the thread list and the current
\* thread of every user stay as they are.
C11_RefusedCommandsChangeNothing ==
    [][\A p \in Procs :
        (proc[p].pc = "idle" /\ proc'[p].pc # "idle" /\ RefusedCommand(proc'[p].userQuery))
            => /\ proc'[p].pc = "done"
               /\ proc'[p].result.kind = "text"
               /\ proc'[p].calls = <<>>
               /\ kvThreads' = kvThreads
               /\ kvCurrent' = kvCurrent]_vars

\* C11 witness: `~thread -c -l` was refused while its user has threads and
\* a current thread
C11_Witness ==
    \E p \in Procs :
        /\ Settled(p)
        /\ proc[p].userQuery = CMD_THREAD \o <<" ", "-", "c", " ", "-", "l">>
        /\ proc[p].result = Responds(TXT_ONLY_ONE_FLAG)
        /\ ListOf(kvThreads, proc[p].userId) # <<>>
        /\ kvCurrent[proc[p].userId].exists

\* the user the memory service registered thread id for
OwnersOf(id) ==
    {t.userId : t \in {r \in zepThreads : r.threadId = id}}

\* C12: no thread id is in the thread lists of two users, and the current
\* thread of a user is never a thread that was created for another user.
C12_ThreadsBelongToOneUser ==
    /\ \A u, v \in Users :
        u # v => Elems(ListOf(kvThreads, u)) \cap Elems(ListOf(kvThreads, v)) = {}
    /\ \A u \in Users :
        kvCurrent[u].exists => OwnersOf(kvCurrent[u].data) \subseteq {u}

\* C12 witness: two users have a thread each, one of them after a switch
C12_Witness ==
    /\ \A u \in Users : ListOf(kvThreads, u) # <<>> /\ kvCurrent[u].exists
    /\ \E p \in Procs :
        /\ Settled(p)
        /\ proc[p].idArg # <<>>
        /\ proc[p].result = Responds(TXT_SWITCHED_PRE \o proc[p].idArg)

\* C13: the list selectRelevantChannels returns has at most three channel
\* descriptors, whatever the directory lists and the selection model answers.
C13_AtMostThreeChannels ==
    \A p \in Procs : Len(proc[p].relevantChannels) <= 3

\* C14: the list searchChannelHistory returns for a channel has at most five
\* messages, whatever was fetched and whatever the relevance model answers.
C14_AtMostFiveMessages ==
    \A p \in Procs :
        \A i \in 1..Len(proc[p].searchResults) : Len(proc[p].searchResults[i].messages) <= 5

\* the function p was in has returned: p waits for one of the calls that
\* come next, or has failed in one of them
ReturnedTo(p, pcs, nextCalls) ==
    \/ proc[p].pc \in pcs
    \/ /\ proc[p].pc = "done"
       /\ proc[p].calls[Len(proc[p].calls)] \in nextCalls

\* the selection model's answer was received and did not parse
SelectionUnparsable(p) ==
    proc[p].selectionText.kind = "invalid"

\* C15: when the selection model's answer does not parse as JSON,
\* selectRelevantChannels returns normally, with the first three channels of
\* the directory listing (all of them if there are fewer), in their order.
C15_UnparsableSelectionFallsBack ==
    \A p \in Procs :
        SelectionUnparsable(p)
            => /\ ReturnedTo(p, {"q_dates"}, {"openai.dates"})
               /\ Len(proc[p].relevantChannels) =
                    (IF Len(proc[p].allChannels) < 3 THEN Len(proc[p].allChannels) ELSE 3)
               /\ \A i \in 1..Len(proc[p].relevantChannels) :
                    /\ proc[p].relevantChannels[i].id = proc[p].allChannels[i].id
                    /\ proc[p].relevantChannels[i].name = proc[p].allChannels[i].name

\* C15 witness: the fallback on a directory of more than three channels
C15_Witness ==
    \E p \in Procs :
        /\ SelectionUnparsable(p)
        /\ Len(proc[p].allChannels) > 3
        /\ Len(proc[p].relevantChannels) = 3

\* the call of p that is pending was answered (it did not throw) in this step
Answered(p, pc) ==
    /\ proc[p].pc = pc
    /\ proc'[p].pc # pc
    /\ failures' = failures

LIST_CHANNELS ==
    "composio.SLACK_LIST_ALL_CHANNELS"

\* C16: when the directory listing is answered, either it has channels and
\* the selection is next, or the request fails with `Could not find any
\* channels.`: no selection model call, no answer, no write to memory.
C16_EmptyDirectoryIsAnError ==
    [][\A p \in Procs :
        Answered(p, "q_listChannels")
            => \/ /\ proc'[p].pc = "q_select"
                  /\ proc'[p].allChannels # <<>>
               \/ /\ proc'[p].pc = "done"
                  /\ proc'[p].allChannels = <<>>
                  /\ proc'[p].relevantChannels = <<>>
                  /\ proc'[p].result = Throws(ERR_NO_CHANNELS)
                  /\ proc'[p].calls = Append(proc[p].calls, LIST_CHANNELS)
                  /\ Elems(proc'[p].calls) \cap
                        {"openai.selection", "openai.synthesis", "zep.thread.addMessages"} = {}
                  /\ proc'[p].finalResponse = <<>>]_vars

\* C16 witness: a query has failed with `Could not find any channels.`
C16_Witness ==
    \E p \in Procs :
        /\ Settled(p)
        /\ IsQuery(p)
        /\ proc[p].result = Throws(ERR_NO_CHANNELS)
        /\ LastOf(proc[p].calls) = LIST_CHANNELS

FETCH_HISTORY ==
    "composio.SLACK_FETCH_CONVERSATION_HISTORY"

\* the entry pushed last has no messages and is the one of channel
EmptyResultOf(results, channel) ==
    /\ results # <<>>
    /\ LastOf(results).messages = <<>>
    /\ LastOf(results).channel_id = channel.id
    /\ LastOf(results).channel_name = channel.name

\* C17: when the history fetch of a channel is answered with no message,
\* the channel's result is the empty list and no relevance call is made for
\* it: the fetch is the last call before the next channel or the synthesis.
\* Only a history with messages is ranked.
C17_EmptyHistoryIsNotRanked ==
    [][\A p \in Procs :
        Answered(p, "q_fetch")
            => IF proc'[p].messages = <<>>
               THEN /\ proc'[p].pc \in {"q_dates", "q_synthesis"}
                    /\ proc'[p].calls = Append(proc[p].calls, FETCH_HISTORY)
                    /\ Len(proc'[p].searchResults) = Len(proc[p].searchResults) + 1
                    /\ EmptyResultOf(proc'[p].searchResults,
                                     proc[p].relevantChannels[proc[p].searched + 1])
               ELSE /\ proc'[p].pc = "q_rank"
                    /\ proc'[p].searchResults = proc[p].searchResults]_vars

\* C17 witness: a channel's search has ended with the fetch of an empty
\* history
C17_Witness ==
    \E p \in Procs :
        /\ proc[p].pc \in {"q_dates", "q_synthesis"}
        /\ proc[p].searchResults # <<>>
        /\ LastOf(proc[p].calls) = FETCH_HISTORY
        /\ LastOf(proc[p].searchResults).messages = <<>>

\* the relevance model's answer was received and did not parse
RelevanceUnparsable(p) ==
    proc[p].relevanceText.kind = "invalid"

\* C18: when the relevance model's answer does not parse as JSON,
\* searchChannelHistory returns normally with the empty list, however many
\* messages were fetched.
C18_UnparsableRelevanceGivesNothing ==
    \A p \in Procs :
        RelevanceUnparsable(p)
            => /\ ReturnedTo(p, {"q_dates", "q_synthesis"}, {"openai.dates", "openai.synthesis"})
               /\ proc[p].messages # <<>>
               /\ proc[p].searchResults # <<>>
               /\ LastOf(proc[p].searchResults).messages = <<>>

\* C18 witness: two messages were fetched, the answer did not parse
C18_Witness ==
    \E p \in Procs :
        /\ RelevanceUnparsable(p)
        /\ Len(proc[p].messages) = 2
        /\ LastOf(proc[p].searchResults).messages = <<>>

\* the date range of the search of p has been computed
RangeComputed(p) ==
    proc[p].pc = "q_fetch"

\* C19: the limit convertToUnixTimestamps returns is a number from 50 to
\* 200, for every pair of date strings.
C19_LimitWithinBounds ==
    \A p \in Procs :
        RangeComputed(p)
            => /\ ~proc[p].range.limit.nan
               /\ proc[p].range.limit.v >= 50
               /\ proc[p].range.limit.v <= 200

\* the day 30 days before the day `MM/DD/YYYY` names, as `MM/DD/YYYY`
ThirtyDaysBefore(today) ==
    FormatDate(DateOf(today).v - 30 * SECONDS_PER_DAY)

\* C20: when the date-range model's answer does not parse as JSON,
\* extractDateStrings returns the 30 days that end on the day it was given
\* as today.
C20_FallbackRangeEndsToday ==
    \A p \in Procs :
        (RangeComputed(p) /\ proc[p].responseText.kind = "invalid")
            => proc[p].dateStrings = [startDate |-> ThirtyDaysBefore(proc[p].todayString),
                                      endDate |-> proc[p].todayString]

\* how often the call `name` is in the log
RECURSIVE CountOf(_, _)
CountOf(calls, name) ==
    IF calls = <<>> THEN 0
    ELSE (IF Head(calls) = name THEN 1 ELSE 0) + CountOf(Tail(calls), name)

\* the channel searches p has started: every one begins with the date-range
\* call, which is pending or in the log
SearchesStarted(p) ==
    CountOf(proc[p].calls, "openai.dates") + (IF proc[p].pc = "q_dates" THEN 1 ELSE 0)

\* the channel searches that have returned: their entries were pushed
SearchesFinished(p) ==
    Len(proc[p].searchResults)

\* C24: the channel searches of a query run one at a time, in the order of
\* the selected channels: a search starts only when all earlier ones have
\* returned, the k entries pushed so far are those of the first k selected
\* channels in their order, and the synthesis is given exactly one entry
\* per selected channel.
C24_SearchesRunInOrder ==
    \A p \in Procs :
        /\ SearchesStarted(p) - SearchesFinished(p) \in {0, 1}
        /\ SearchesFinished(p) <= Len(proc[p].relevantChannels)
        /\ \A i \in 1..SearchesFinished(p) :
            /\ DOMAIN proc[p].searchResults[i] = {"channel_name", "channel_id", "messages"}
            /\ proc[p].searchResults[i].channel_id = proc[p].relevantChannels[i].id
            /\ proc[p].searchResults[i].channel_name = proc[p].relevantChannels[i].name
        /\ proc[p].pc \in {"q_dates", "q_fetch", "q_rank"}
            => SearchesStarted(p) = SearchesFinished(p) + 1
        /\ "openai.synthesis" \in Elems(proc[p].calls) \/ proc[p].pc = "q_synthesis"
            => /\ SearchesStarted(p) = SearchesFinished(p)
               /\ SearchesFinished(p) = Len(proc[p].relevantChannels)

\* C24 witness: three channels were selected and searched, the second of
\* them with messages found, and the synthesis is next
C24_Witness ==
    \E p \in Procs :
        /\ proc[p].pc = "q_synthesis"
        /\ Len(proc[p].relevantChannels) = 3
        /\ Len(proc[p].searchResults) = 3
        /\ proc[p].searchResults[1].messages = <<>>
        /\ proc[p].searchResults[2].messages # <<>>

\* the ids the directory listing of p's request holds
ListedIds(p) ==
    {proc[p].allChannels[i].id : i \in 1..Len(proc[p].allChannels)}

\* C30: every channel descriptor selectRelevantChannels returns has the id
\* of a channel of the directory listing fetched in the same call, so every
\* channel whose history is fetched is one the directory listed.
C30_SelectedChannelsAreListed ==
    \A p \in Procs :
        \A i \in 1..Len(proc[p].relevantChannels) :
            proc[p].relevantChannels[i].id \in ListedIds(p)

\* the handler of p goes from one await of its command to another
Moves(p, from, to) ==
    /\ proc[p].pc = from
    /\ proc'[p].pc = to

\* C26: createThread does not guard the thread list between its read and
\* its write.  The list it is going to write is its id put before the list
\* as it reads it; it keeps that list while other commands run; its write
\* stores exactly that list, so an id another command has stored since the
\* read is dropped; and it confirms with `Created thread: <id>` whether or
\* not the list has been overwritten.  Two overlapping `~thread -c` of one
\* user can therefore both be confirmed with only one of the ids listed.
C26_CreateWritesTheListItRead ==
    [][\A p \in Procs :
        /\ Moves(p, "c_kvGet", "c_kvSetThreads")
            => proc'[p].prevThreads =
                    <<proc[p].threadId>> \o ListOf(kvThreads, proc[p].userId)
        /\ Moves(p, "c_kvSetThreads", "c_kvSetThreads")
            => proc'[p].prevThreads = proc[p].prevThreads
        /\ Moves(p, "c_kvSetThreads", "c_kvSetCurrent")
            => /\ kvThreads'[proc[p].userId] = Present(proc[p].prevThreads)
               /\ \A id \in Elems(ListOf(kvThreads, proc[p].userId)) :
                    id \notin Elems(proc[p].prevThreads)
                        => id \notin Elems(ListOf(kvThreads', proc[p].userId))
        /\ (Moves(p, "c_kvSetCurrent", "done") /\ failures' = failures)
            => proc'[p].result = Responds(TXT_CREATED_PRE \o proc[p].threadId)]_vars

\* C26 witness: two `~thread -c` of one user have both answered `Created
\* thread: <id>`, each with its own id, and the list holds one id only
C26_Witness ==
    \E p, q \in Procs :
        /\ p # q
        /\ Settled(p) /\ Settled(q)
        /\ proc[p].userId = proc[q].userId
        /\ proc[p].userQuery = CreateCommand /\ proc[q].userQuery = CreateCommand
        /\ proc[p].result = Responds(TXT_CREATED_PRE \o proc[p].threadId)
        /\ proc[q].result = Responds(TXT_CREATED_PRE \o proc[q].threadId)
        /\ proc[p].threadId # proc[q].threadId
        /\ ListOf(kvThreads, proc[p].userId) = <<proc[p].threadId>>

\* the interaction of p's query was written to a thread of the memory
\* service: zep.thread.addMessages has returned
Stored(p) ==
    /\ IsQuery(p)
    /\ Settled(p)
    /\ proc[p].result.kind = "text"
    /\ LastOf(proc[p].calls) = "zep.thread.addMessages"

\* C27: the thread a query writes its interaction to (storeMemory) is the
\* thread whose context and whose history it read at its start
\* (getMemoryContext, getThreadHistory), also when a `~thread -c` or a
\* `~thread -s` of the same user is served while the query is in progress.
C27_OneThreadPerQuery ==
    \A p \in Procs :
        Stored(p)
            => /\ Len(proc[p].threadIds) = 3
               /\ proc[p].threadIds[1] = proc[p].threadIds[3]
               /\ proc[p].threadIds[2] = proc[p].threadIds[3]

\* createThread has returned `Error creating thread` to p
CreationFailed(p) ==
    /\ Settled(p)
    /\ proc[p].userQuery = CreateCommand
    /\ proc[p].result = Responds(TXT_ERROR_CREATING)

\* C28: when createThread returns `Error creating thread`, the user's
\* thread list and current thread are what they were before the command.
C28_FailedCreateChangesNothing ==
    \A p \in Procs :
        CreationFailed(p)
            => /\ kvThreads[proc[p].userId] = proc[p].before.threads
               /\ kvCurrent[proc[p].userId] = proc[p].before.current

\* the relevance model's answer to p's search was received and is an array
RankedArray(p) ==
    proc[p].relevanceText.kind = "array"

\* the list searchChannelHistory has returned to p
ReturnedMessages(p) ==
    LastOf(proc[p].searchResults).messages

\* the entry is a number i with 0 <= i < n
WithinRange(entry, n) ==
    /\ entry.json = "number"
    /\ entry.twice >= 0
    /\ entry.twice < 2 * n

\* the entries of the answer that are within the range, in their order
RECURSIVE EntriesWithin(_, _)
EntriesWithin(items, n) ==
    IF items = <<>> THEN <<>>
    ELSE (IF WithinRange(Head(items), n) THEN <<Head(items)>> ELSE <<>>)
            \o EntriesWithin(Tail(items), n)

\* C25: for every JSON array the relevance model answers with,
\* searchChannelHistory returns normally, with one message per entry i of
\* the array that has 0 <= i < messages.length, in the order of the array:
\* every element of the list is a message of the fetched list, the one at
\* its entry, and the entries out of range are dropped.
C25_InRangeEntriesInOrder ==
    \A p \in Procs :
        RankedArray(p)
            => LET messages == proc[p].messages
                   within == EntriesWithin(proc[p].relevanceText.items, Len(messages))
               IN  /\ ReturnedTo(p, {"q_dates", "q_synthesis"}, {"openai.dates", "openai.synthesis"})
                   /\ Len(ReturnedMessages(p)) = Len(within)
                   /\ \A k \in 1..Len(ReturnedMessages(p)) :
                        /\ ReturnedMessages(p)[k] \in Elems(messages)
                        /\ within[k].twice % 2 = 0
                            => ReturnedMessages(p)[k] = messages[within[k].twice \div 2 + 1]

\* every entry of the answer is an integer
AllIntegers(items) ==
    \A k \in 1..Len(items) : items[k].json = "number" /\ items[k].twice % 2 = 0

\* C29: every message searchChannelHistory returns is one of the messages
\* that were presented to the relevance model, the first 50 normalized
\* messages of the fetch, also when more than 50 were fetched (stated for
\* the answers that are arrays of integers).
C29_ReturnedWerePresented ==
    \A p \in Procs :
        (RankedArray(p) /\ AllIntegers(proc[p].relevanceText.items))
            => \A k \in 1..Len(ReturnedMessages(p)) :
                    ReturnedMessages(p)[k] \in Elems(Presented(proc[p].messages))

\* the ingress adapter has returned its response to the request
Responded ==
    ingress.pc = "responded"

\* C21: when the payload carries a challenge token, the ingress adapter
\* responds with the token and starts no event processing: no agent is
\* looked up or run and nothing is posted, also when the payload holds an
\* app_mention event as well.
C21_ChallengeStartsNoProcessing ==
    (Responded /\ ingress.payload.challenge # <<>>)
        => /\ ingress.response = Responds(ingress.payload.challenge)
           /\ ingress.work = "none"
           /\ ingress.calls = <<>>
           /\ ingress.posts = <<>>
           /\ proc["p1"].pc = "idle"

\* C22: the ingress adapter returns `Success.`, or the challenge, in the
\* step that dispatches the work, and the response is the same wherever the
\* work stands: waiting for the agent, in the run of the query agent,
\* posting, over, or rejected.
C22_ResponseDoesNotWaitForWork ==
    /\ ingress.work # "none" => Responded
    /\ Responded
        => /\ ingress.response = ResponseTo(ingress.payload)
           /\ ingress.response.kind = "text"
           /\ ingress.response.text \in {TXT_SUCCESS, ingress.payload.challenge}

\* C22 witness: `Success.` was returned and the query agent is in the
\* middle of its run, waiting for the relevance model
C22_Witness ==
    /\ Responded
    /\ ingress.response = Responds(TXT_SUCCESS)
    /\ ingress.work = "run"
    /\ proc["p1"].pc = "q_rank"

\* C23: for one app_mention event the post to Slack is attempted at most
\* once, into the channel of the event and the thread of its message
\* (thread_ts is the event's ts), with the text the query agent returned;
\* a post that fails is logged, the work is over without another attempt,
\* and the response stays what was returned.
C23_OnePostIntoTheThread ==
    /\ Len(ingress.posts) <= 1
    /\ Len(ingress.posts) = CountOf(ingress.calls, "slack.chat.postMessage")
    /\ \A k \in 1..Len(ingress.posts) :
        /\ ingress.payload.event.type = "app_mention"
        /\ ingress.posts[k].channel = ingress.payload.event.channel
        /\ ingress.posts[k].thread_ts = ingress.payload.event.ts
        /\ ingress.posts[k].text = ingress.result.text
    /\ ingress.errors <= Len(ingress.posts)
    /\ ingress.errors > 0
        => /\ ingress.work = "done"
           /\ ingress.response = ResponseTo(ingress.payload)

\* C23 witness: the one post of an event has failed and was logged, the
\* work is over and the response is `Success.`
C23_Witness ==
    /\ ingress.errors = 1
    /\ Len(ingress.posts) = 1
    /\ ingress.work = "done"
    /\ ingress.response = Responds(TXT_SUCCESS)

====
